---- MODULE Spec2Model ----
(***************************************************************************)
(* License lifecycle controller of brv_license_app                         *)
(* (doctype/license_settings/license_settings.py) together with the parts  *)
(* of the LMFWC client it depends on (license_client.py).                  *)
(*                                                                         *)
(* Modelling conventions                                                   *)
(*  - Python strings that the code inspects or builds (error messages,     *)
(*    reasons, user-facing failures) are sequences of one-character        *)
(*    strings, so that substring tests, lower() and the expiry regex are   *)
(*    computed character by character.                                     *)
(*  - Datetimes are integers counted in seconds; None is NoTime; a value   *)
(*    that get_datetime cannot parse is BadTime.  A datetime literal in a  *)
(*    message is written as its decimal digits.                            *)
(*  - License keys and activation tokens are opaque strings without        *)
(*    surrounding whitespace; "" stands for both None and "".              *)
(*  - A controller operation is split at its blocking remote calls: the    *)
(*    Begin action loads the Single document and runs up to the first      *)
(*    call, every later action consumes the outcome of one call and runs   *)
(*    the handler up to the next call or to its return / raise.            *)
(***************************************************************************)
EXTENDS Integers, Sequences, FiniteSets, TLC

VARIABLES doc, now, run, last, client, jobs, pick, gate

vars == <<doc, now, run, last, client, jobs, pick, gate>>

(***************************************************************************)
(* Bounds of the model                                                     *)
(***************************************************************************)
\* number of clock steps explored after the start time
MaxTicks == 2

(***************************************************************************)
(* String literals of the source                                           *)
(***************************************************************************)
\* "Activated"
S_Activated ==
    <<"A", "c", "t", "i", "v", "a", "t", "e", "d">>
\* "License expired"
S_LicenseExpired ==
    <<"L", "i", "c", "e", "n", "s", "e", " ", "e", "x", "p", "i", "r", "e", "d">>
\* "Validated"
S_Validated ==
    <<"V", "a", "l", "i", "d", "a", "t", "e", "d">>
\* "Validated (no active activation)"
S_ValidatedNoActive ==
    <<"V", "a", "l", "i", "d", "a", "t", "e", "d", " ", "(", "n", "o", " ", "a", "c", "t", "i", "v", "e", " ", "a", "c", "t", "i", "v", "a", "t", "i", "o", "n", ")">>
\* "Grace cleared after success"
S_GraceCleared ==
    <<"G", "r", "a", "c", "e", " ", "c", "l", "e", "a", "r", "e", "d", " ", "a", "f", "t", "e", "r", " ", "s", "u", "c", "c", "e", "s", "s">>
\* "Deactivated"
S_Deactivated ==
    <<"D", "e", "a", "c", "t", "i", "v", "a", "t", "e", "d">>
\* "License deactivated"
S_LicenseDeactivated ==
    <<"L", "i", "c", "e", "n", "s", "e", " ", "d", "e", "a", "c", "t", "i", "v", "a", "t", "e", "d">>
\* "Token rotated from validate"
S_TokenRotated ==
    <<"T", "o", "k", "e", "n", " ", "r", "o", "t", "a", "t", "e", "d", " ", "f", "r", "o", "m", " ", "v", "a", "l", "i", "d", "a", "t", "e">>
\* "Grace policy engaged: "
S_GracePrefix ==
    <<"G", "r", "a", "c", "e", " ", "p", "o", "l", "i", "c", "y", " ", "e", "n", "g", "a", "g", "e", "d", ":", " ">>
\* "Deactivate failed: "
S_DeactFailedPrefix ==
    <<"D", "e", "a", "c", "t", "i", "v", "a", "t", "e", " ", "f", "a", "i", "l", "e", "d", ":", " ">>
\* "Deactivate unexpected error: "
S_DeactUnexpectedPrefix ==
    <<"D", "e", "a", "c", "t", "i", "v", "a", "t", "e", " ", "u", "n", "e", "x", "p", "e", "c", "t", "e", "d", " ", "e", "r", "r", "o", "r", ":", " ">>
\* "Unexpected error: "
S_UnexpectedPrefix ==
    <<"U", "n", "e", "x", "p", "e", "c", "t", "e", "d", " ", "e", "r", "r", "o", "r", ":", " ">>
\* "License Key is required in settings or as parameter."
T_KeyRequired ==
    <<"L", "i", "c", "e", "n", "s", "e", " ", "K", "e", "y", " ", "i", "s", " ", "r", "e", "q", "u", "i", "r", "e", "d", " ", "i", "n", " ", "s", "e", "t", "t", "i", "n", "g", "s", " ", "o", "r", " ", "a", "s", " ", "p", "a", "r", "a", "m", "e", "t", "e", "r", ".">>
\* "License is expired. Please renew your license."
T_Expired ==
    <<"L", "i", "c", "e", "n", "s", "e", " ", "i", "s", " ", "e", "x", "p", "i", "r", "e", "d", ".", " ", "P", "l", "e", "a", "s", "e", " ", "r", "e", "n", "e", "w", " ", "y", "o", "u", "r", " ", "l", "i", "c", "e", "n", "s", "e", ".">>
\* "Operation failed. See Error Log for details."
T_Failed ==
    <<"O", "p", "e", "r", "a", "t", "i", "o", "n", " ", "f", "a", "i", "l", "e", "d", ".", " ", "S", "e", "e", " ", "E", "r", "r", "o", "r", " ", "L", "o", "g", " ", "f", "o", "r", " ", "d", "e", "t", "a", "i", "l", "s", ".">>
\* "Operation failed due to unexpected error. See logs for details."
T_Unexpected ==
    <<"O", "p", "e", "r", "a", "t", "i", "o", "n", " ", "f", "a", "i", "l", "e", "d", " ", "d", "u", "e", " ", "t", "o", " ", "u", "n", "e", "x", "p", "e", "c", "t", "e", "d", " ", "e", "r", "r", "o", "r", ".", " ", "S", "e", "e", " ", "l", "o", "g", "s", " ", "f", "o", "r", " ", "d", "e", "t", "a", "i", "l", "s", ".">>
\* "Activation token is required (not found in settings or validation response)."
T_TokenRequired ==
    <<"A", "c", "t", "i", "v", "a", "t", "i", "o", "n", " ", "t", "o", "k", "e", "n", " ", "i", "s", " ", "r", "e", "q", "u", "i", "r", "e", "d", " ", "(", "n", "o", "t", " ", "f", "o", "u", "n", "d", " ", "i", "n", " ", "s", "e", "t", "t", "i", "n", "g", "s", " ", "o", "r", " ", "v", "a", "l", "i", "d", "a", "t", "i", "o", "n", " ", "r", "e", "s", "p", "o", "n", "s", "e", ")", ".">>
\* "Another activation attempt is still settling. Please retry in a few seconds."
T_Settling ==
    <<"A", "n", "o", "t", "h", "e", "r", " ", "a", "c", "t", "i", "v", "a", "t", "i", "o", "n", " ", "a", "t", "t", "e", "m", "p", "t", " ", "i", "s", " ", "s", "t", "i", "l", "l", " ", "s", "e", "t", "t", "l", "i", "n", "g", ".", " ", "P", "l", "e", "a", "s", "e", " ", "r", "e", "t", "r", "y", " ", "i", "n", " ", "a", " ", "f", "e", "w", " ", "s", "e", "c", "o", "n", "d", "s", ".">>
\* "Activation limit reached on the server and no fresh token was issued. Please deactivate an existing activation or increase the limit."
T_LimitNoToken ==
    <<"A", "c", "t", "i", "v", "a", "t", "i", "o", "n", " ", "l", "i", "m", "i", "t", " ", "r", "e", "a", "c", "h", "e", "d", " ", "o", "n", " ", "t", "h", "e", " ", "s", "e", "r", "v", "e", "r", " ", "a", "n", "d", " ", "n", "o", " ", "f", "r", "e", "s", "h", " ", "t", "o", "k", "e", "n", " ", "w", "a", "s", " ", "i", "s", "s", "u", "e", "d", ".", " ", "P", "l", "e", "a", "s", "e", " ", "d", "e", "a", "c", "t", "i", "v", "a", "t", "e", " ", "a", "n", " ", "e", "x", "i", "s", "t", "i", "n", "g", " ", "a", "c", "t", "i", "v", "a", "t", "i", "o", "n", " ", "o", "r", " ", "i", "n", "c", "r", "e", "a", "s", "e", " ", "t", "h", "e", " ", "l", "i", "m", "i", "t", ".">>
\* "Operation failed. See log file or Error Log for details."
T_FailedLog ==
    <<"O", "p", "e", "r", "a", "t", "i", "o", "n", " ", "f", "a", "i", "l", "e", "d", ".", " ", "S", "e", "e", " ", "l", "o", "g", " ", "f", "i", "l", "e", " ", "o", "r", " ", "E", "r", "r", "o", "r", " ", "L", "o", "g", " ", "f", "o", "r", " ", "d", "e", "t", "a", "i", "l", "s", ".">>
\* "expire"
P_expire ==
    <<"e", "x", "p", "i", "r", "e">>
\* "expired"
P_expired ==
    <<"e", "x", "p", "i", "r", "e", "d">>
\* "expired on"
P_expired_on ==
    <<"e", "x", "p", "i", "r", "e", "d", " ", "o", "n">>
\* "(utc)"
P_utc ==
    <<"(", "u", "t", "c", ")">>
\* "Activation limit"
P_ActivationLimit ==
    <<"A", "c", "t", "i", "v", "a", "t", "i", "o", "n", " ", "l", "i", "m", "i", "t">>
\* "maximum activation"
P_maximum_activation ==
    <<"m", "a", "x", "i", "m", "u", "m", " ", "a", "c", "t", "i", "v", "a", "t", "i", "o", "n">>
\* "idempotency guard"
P_idempotency_guard ==
    <<"i", "d", "e", "m", "p", "o", "t", "e", "n", "c", "y", " ", "g", "u", "a", "r", "d">>
\* "License expired on 0 (UTC)"
M_ExpiredOn ==
    <<"L", "i", "c", "e", "n", "s", "e", " ", "e", "x", "p", "i", "r", "e", "d", " ", "o", "n", " ", "0", " ", "(", "U", "T", "C", ")">>
\* "License expired on 0-0 (UTC)"
M_ExpiredOnBad ==
    <<"L", "i", "c", "e", "n", "s", "e", " ", "e", "x", "p", "i", "r", "e", "d", " ", "o", "n", " ", "0", "-", "0", " ", "(", "U", "T", "C", ")">>
\* "License is no longer valid"
M_NotValid ==
    <<"L", "i", "c", "e", "n", "s", "e", " ", "i", "s", " ", "n", "o", " ", "l", "o", "n", "g", "e", "r", " ", "v", "a", "l", "i", "d">>
\* "activation limit reached"
M_LimitLower ==
    <<"a", "c", "t", "i", "v", "a", "t", "i", "o", "n", " ", "l", "i", "m", "i", "t", " ", "r", "e", "a", "c", "h", "e", "d">>
\* "The maximum activation limit was reached"
M_MaxLimit ==
    <<"T", "h", "e", " ", "m", "a", "x", "i", "m", "u", "m", " ", "a", "c", "t", "i", "v", "a", "t", "i", "o", "n", " ", "l", "i", "m", "i", "t", " ", "w", "a", "s", " ", "r", "e", "a", "c", "h", "e", "d">>
\* "Network error: timed out"
M_Network ==
    <<"N", "e", "t", "w", "o", "r", "k", " ", "e", "r", "r", "o", "r", ":", " ", "t", "i", "m", "e", "d", " ", "o", "u", "t">>
\* "Duplicate activate blocked by idempotency guard"
M_Guard ==
    <<"D", "u", "p", "l", "i", "c", "a", "t", "e", " ", "a", "c", "t", "i", "v", "a", "t", "e", " ", "b", "l", "o", "c", "k", "e", "d", " ", "b", "y", " ", "i", "d", "e", "m", "p", "o", "t", "e", "n", "c", "y", " ", "g", "u", "a", "r", "d">>
\* "license_key format looks invalid (expect A<U+2013>Z, 0<U+2013>9 and dashes)":
\* the source spells both ranges with the character EN DASH (U+2013), not
\* with the hyphen; the one element "\\u2013" stands for that character
M_Config ==
    <<"l", "i", "c", "e", "n", "s", "e", "_", "k", "e", "y", " ", "f", "o", "r", "m", "a", "t", " ", "l", "o", "o", "k", "s", " ", "i", "n", "v", "a", "l", "i", "d", " ", "(", "e", "x", "p", "e", "c", "t", " ", "A", "\\u2013", "Z", ",", " ", "0", "\\u2013", "9", " ", "a", "n", "d", " ", "d", "a", "s", "h", "e", "s", ")">>
\* "License key is invalid"
M_Invalid ==
    <<"L", "i", "c", "e", "n", "s", "e", " ", "k", "e", "y", " ", "i", "s", " ", "i", "n", "v", "a", "l", "i", "d">>

(***************************************************************************)
(* Python string operations on character sequences                         *)
(***************************************************************************)
UpperChars ==
    <<"A", "B", "C", "D", "E", "F", "G", "H", "I", "J", "K", "L", "M",
      "N", "O", "P", "Q", "R", "S", "T", "U", "V", "W", "X", "Y", "Z">>

LowerChars ==
    <<"a", "b", "c", "d", "e", "f", "g", "h", "i", "j", "k", "l", "m",
      "n", "o", "p", "q", "r", "s", "t", "u", "v", "w", "x", "y", "z">>

DigitChars ==
    <<"0", "1", "2", "3", "4", "5", "6", "7", "8", "9">>

\* one character of str.lower()
LowerChar(c) ==
    IF \E i \in 1..26 : UpperChars[i] = c
    THEN LowerChars[CHOOSE i \in 1..26 : UpperChars[i] = c]
    ELSE c

\* str.lower()
Lower(s) ==
    [i \in 1..Len(s) |-> LowerChar(s[i])]

\* the Python test `sub in s`
Contains(sub, s) ==
    \E i \in 0..(Len(s) - Len(sub)) : SubSeq(s, i + 1, i + Len(sub)) = sub

IsDigit(c) ==
    \E i \in 1..10 : DigitChars[i] = c

DigitVal(c) ==
    (CHOOSE i \in 1..10 : DigitChars[i] = c) - 1

\* the character class [\d:\-\s] of _EXP_RE
InExpClass(c) ==
    IsDigit(c) \/ c = ":" \/ c = "-" \/ c = " "

\* str.strip() for the blank character
RECURSIVE Strip(_)
Strip(s) ==
    IF s = <<>> THEN s
    ELSE IF Head(s) = " " THEN Strip(Tail(s))
    ELSE IF s[Len(s)] = " " THEN Strip(SubSeq(s, 1, Len(s) - 1))
    ELSE s

RECURSIVE DecimalValue(_)
DecimalValue(s) ==
    IF s = <<>> THEN 0
    ELSE 10 * DecimalValue(SubSeq(s, 1, Len(s) - 1)) + DigitVal(s[Len(s)])

(***************************************************************************)
(* Datetimes                                                               *)
(***************************************************************************)
\* None in a datetime field
NoTime == -1
\* a value get_datetime() raises on
BadTime == -2

SecondsPerHour == 3600
\* one step of the model clock: a day
DaySeconds == 24 * SecondsPerHour
\* the clock value of the initial state
StartTime == DaySeconds
MaxNow == StartTime + MaxTicks * DaySeconds

\* frappe.utils.get_datetime on the text of a datetime: the decimal digits of
\* the instant; None for an empty text; anything else does not parse
get_datetime_text(s) ==
    IF s = <<>> THEN NoTime
    ELSE IF \A i \in 1..Len(s) : IsDigit(s[i]) THEN DecimalValue(s)
    ELSE BadTime

\* _EXP_RE.search(msg): the text between "expired on" and "(UTC)" (both
\* matched ignoring case) must start with a blank, have two or more
\* characters, all of the class [\d:\-\s]; the leftmost match wins
ExpMatchAt(low, i) ==
    /\ i + 9 <= Len(low)
    /\ SubSeq(low, i, i + 9) = P_expired_on
    /\ \E e \in (i + 11)..Len(low) :
          /\ low[i + 10] = " "
          /\ \A k \in (i + 10)..e : InExpClass(low[k])
          /\ e + 5 <= Len(low)
          /\ SubSeq(low, e + 1, e + 5) = P_utc

ExpMatchEnd(low, i) ==
    CHOOSE e \in (i + 11)..Len(low) :
          /\ \A k \in (i + 10)..e : InExpClass(low[k])
          /\ e + 5 <= Len(low)
          /\ SubSeq(low, e + 1, e + 5) = P_utc

_parse_expiry_from_msg(msg) ==
    LET low == Lower(msg)
        hits == {i \in 1..Len(low) : ExpMatchAt(low, i)}
    IN  IF hits = {} THEN NoTime
        ELSE LET i == CHOOSE h \in hits : \A g \in hits : h <= g
                 t == get_datetime_text(Strip(SubSeq(msg, i + 10, ExpMatchEnd(low, i))))
             IN  IF t = BadTime THEN NoTime ELSE t

_is_expired_error(msg) ==
    Contains(P_expired, Lower(msg))

(***************************************************************************)
(* License State and the status values                                     *)
(***************************************************************************)
STATUS_UNCONFIGURED == "UNCONFIGURED"
STATUS_ACTIVE == "ACTIVE"
STATUS_VALIDATED == "VALIDATED"
STATUS_DEACTIVATED == "DEACTIVATED"
STATUS_EXPIRED == "EXPIRED"
STATUS_REVOKED == "REVOKED"
STATUS_GRACE_SOFT == "GRACE_SOFT"
STATUS_LOCK_HARD == "LOCK_HARD"

Statuses ==
    {STATUS_UNCONFIGURED, STATUS_ACTIVE, STATUS_VALIDATED, STATUS_DEACTIVATED,
     STATUS_EXPIRED, STATUS_REVOKED, STATUS_GRACE_SOFT, STATUS_LOCK_HARD}

\* the license key used in the model, and the tokens the server and the caller use
LicKey == "LIC-KEY-0001"
Tok1 == "a1a1a1a1a1a1a1a1"
Tok2 == "b2b2b2b2b2b2b2b2"
TokUser == "c3c3c3c3c3c3c3c3"

\* the Single document "License Settings" before any operation
NewDoc(key) ==
    [license_key |-> key, status |-> STATUS_UNCONFIGURED, activation_token |-> "",
     expires_at |-> NoTime, grace_until |-> NoTime, reason |-> <<>>,
     last_validated |-> NoTime]

(***************************************************************************)
(* Remote answers: response bodies and the client's exceptions             *)
(***************************************************************************)
\* an activation record of a response
Rec(tok, deact, upd, cre) ==
    [token |-> tok, deactivated_at |-> deact, updated_at |-> upd, created_at |-> cre]

\* the object under "data": kind is "absent", "dict" (recs has one record) or "list"
Data(e, kind, recs, n) ==
    [expiresAt |-> e, activationData |-> [kind |-> kind, recs |-> recs], timesActivated |-> n]

\* a JSON body as LMFWCClient._handle_response returns it: the canonical
\* wrapper {"success":..,"data":{..}} or (pattern B) the bare object
Body(w, d) ==
    [wrapped |-> w, data |-> d]

NoData == Data(NoTime, "absent", <<>>, 0)
NoBody == Body(FALSE, NoData)

\* expiry instants the server reports: one before the start time, one that
\* the model clock passes during a run
ExpEarly == 0
ExpMid == StartTime + DaySeconds

Bodies ==
    { Body(TRUE, Data(ExpMid, "dict", <<Rec(Tok1, NoTime, 10, 10)>>, 1)),
      Body(TRUE, Data(ExpEarly, "list", <<>>, 0)),
      Body(TRUE, Data(NoTime, "list", <<Rec(Tok1, 30, 30, 10), Rec(Tok2, NoTime, 20, 10)>>, 0)),
      Body(TRUE, Data(NoTime, "dict", <<Rec("", 30, 30, 10)>>, 0)),
      Body(TRUE, Data(BadTime, "absent", <<>>, 1)),
      Body(FALSE, Data(ExpMid, "dict", <<Rec(Tok2, NoTime, 10, 10)>>, 1)) }

NoStatus == 0
CODE_EXPIRED == "lmfwc_rest_license_expired"
CODE_DATA == "lmfwc_rest_data_error"

\* an exception of the client: its class, str(e), e.status and the error
\* codes of e.payload["data"]["errors"] in order
Err(exc, msg, status, codes) ==
    [exc |-> exc, msg |-> msg, status |-> status, codes |-> codes]

NoErr == Err("none", <<>>, NoStatus, <<>>)

\* the outcome of one client call
Ok(body) ==
    [kind |-> "ok", body |-> body, err |-> NoErr]

Raised(e) ==
    [kind |-> e.exc, body |-> NoBody, err |-> e]

NoOutcome ==
    [kind |-> "none", body |-> NoBody, err |-> NoErr]

ExpiryErrors ==
    { Err("ContractError", M_ExpiredOn, 405, <<CODE_EXPIRED>>),
      Err("ContractError", M_NotValid, 405, <<CODE_EXPIRED>>),
      Err("RequestError", M_ExpiredOnBad, 410, <<>>) }

PlainErrors ==
    { Err("ContractError", M_Invalid, 404, <<CODE_DATA>>),
      Err("RequestError", M_Network, NoStatus, <<>>) }

LimitErrors ==
    { Err("ContractError", M_MaxLimit, 404, <<CODE_DATA>>),
      Err("ContractError", M_LimitLower, 404, <<CODE_DATA>>) }

GuardErrors ==
    { Err("RequestError", M_Guard, 409, <<>>) }

UnexpectedErrors ==
    { Err("Exception", M_Config, NoStatus, <<>>) }

ActivateOutcomes ==
    {Ok(b) : b \in Bodies} \cup
    {Raised(e) : e \in ExpiryErrors \cup PlainErrors \cup LimitErrors \cup GuardErrors \cup UnexpectedErrors}

ValidateErrors ==
    { Err("ContractError", M_ExpiredOn, 405, <<CODE_EXPIRED>>),
      Err("RequestError", M_Network, NoStatus, <<>>),
      Err("Exception", M_Config, NoStatus, <<>>) }

ValidateOutcomes ==
    {Ok(b) : b \in Bodies} \cup {Raised(e) : e \in ValidateErrors}

\* what the deactivate endpoint answers: a license object with or without expiry
DeactivateBodies ==
    { Body(TRUE, Data(ExpMid, "absent", <<>>, 0)),
      Body(TRUE, Data(NoTime, "absent", <<>>, 0)) }

DeactivateOutcomes ==
    {Ok(b) : b \in DeactivateBodies} \cup
    {Raised(e) : e \in PlainErrors \cup UnexpectedErrors}

(***************************************************************************)
(* Internal helpers of the controller                                      *)
(***************************************************************************)
\* _extract_data: resp["data"] of the wrapper, else resp itself; both are
\* the object held in the data field of the model's Body
_extract_data(resp) ==
    resp.data

\* score(item) of _extract_latest_token
IsActiveRec(x) ==
    IF x.deactivated_at = NoTime THEN 1 ELSE 0

parse_ts(s) ==
    IF s = NoTime \/ s = BadTime THEN 0 ELSE s

RecTs(x) ==
    IF parse_ts(x.updated_at) # 0 THEN parse_ts(x.updated_at) ELSE parse_ts(x.created_at)

\* variant of ScoreGreater that compares the timestamps before the activity
ScoreGreater_recency_first(a, b) ==
    \/ RecTs(a) > RecTs(b)
    \/ RecTs(a) = RecTs(b) /\ IsActiveRec(a) > IsActiveRec(b)

\* tuple comparison score(a) > score(b)
ScoreGreater(a, b) ==
    \/ IsActiveRec(a) > IsActiveRec(b)
    \/ IsActiveRec(a) = IsActiveRec(b) /\ RecTs(a) > RecTs(b)

\* variant of FirstMax that returns the last of the candidates no other one
\* beats
FirstMax_last(cands) ==
    cands[CHOOSE i \in 1..Len(cands) :
            /\ \A j \in 1..Len(cands) : ~ScoreGreater(cands[j], cands[i])
            /\ \A j \in (i + 1)..Len(cands) : ScoreGreater(cands[i], cands[j])]

\* max(candidates, key=score): the first candidate no other one beats
FirstMax(cands) ==
    cands[CHOOSE i \in 1..Len(cands) :
            /\ \A j \in 1..Len(cands) : ~ScoreGreater(cands[j], cands[i])
            /\ \A j \in 1..(i - 1) : ScoreGreater(cands[i], cands[j])]

\* [x for x in activation_data if x.get("token")]
Candidates(recs) ==
    SelectSeq(recs, LAMBDA x : x.token # "")

\* _extract_latest_token(payload): "" stands for None
_extract_latest_token(payload) ==
    LET act == payload.data.activationData
    IN  IF ~payload.wrapped THEN ""
        ELSE IF act.kind = "dict" THEN act.recs[1].token
        ELSE IF act.kind # "list" \/ act.recs = <<>> THEN ""
        ELSE IF Candidates(act.recs) = <<>> THEN ""
        ELSE FirstMax(Candidates(act.recs)).token

\* _maybe_update_token_from_payload: the document afterwards
_maybe_update_token_from_payload(d, payload) ==
    LET latest == _extract_latest_token(payload)
    IN  IF latest = "" THEN d
        ELSE IF latest # d.activation_token THEN [d EXCEPT !.activation_token = latest]
        ELSE d

\* the value _maybe_update_token_from_payload returns
TokenChanged(d, payload) ==
    _extract_latest_token(payload) # "" /\ _extract_latest_token(payload) # d.activation_token

_apply_expiry(d, data) ==
    IF data.expiresAt # NoTime /\ data.expiresAt # BadTime
    THEN [d EXCEPT !.expires_at = data.expiresAt]
    ELSE d

\* variant of _clear_grace that resets the status but leaves grace_until
_clear_grace_keeps_until(d) ==
    IF d.status \in {STATUS_GRACE_SOFT, STATUS_LOCK_HARD}
    THEN [d EXCEPT !.status = STATUS_VALIDATED, !.reason = S_GraceCleared]
    ELSE d

_clear_grace(d) ==
    IF d.status \in {STATUS_GRACE_SOFT, STATUS_LOCK_HARD}
    THEN [d EXCEPT !.grace_until = NoTime, !.status = STATUS_VALIDATED, !.reason = S_GraceCleared]
    ELSE [d EXCEPT !.grace_until = NoTime]

\* variant of _apply_activation_update that does not take over the returned expiry
_apply_activation_update_no_expiry(d, data, t) ==
    _clear_grace([d EXCEPT !.status = STATUS_ACTIVE, !.reason = S_Activated, !.last_validated = t])

_apply_activation_update(d, data, t) ==
    _clear_grace([_apply_expiry(d, data) EXCEPT
                    !.status = STATUS_ACTIVE, !.reason = S_Activated, !.last_validated = t])

_apply_deactivation_update(d, data) ==
    [_apply_expiry(d, data) EXCEPT !.status = STATUS_DEACTIVATED, !.reason = S_Deactivated]

\* variant of has_active_activation that takes any activation record for an
\* active one
has_active_activation_any_record(data) ==
    data.activationData.kind \in {"dict", "list"} /\ data.activationData.recs # <<>>

has_active_activation(data) ==
    LET act == data.activationData
    IN  IF act.kind = "dict" THEN act.recs[1].deactivated_at = NoTime
        ELSE IF act.kind = "list" THEN \E i \in 1..Len(act.recs) : act.recs[i].deactivated_at = NoTime
        ELSE FALSE

\* variant of ExpiredAt that never finds the license expired
ExpiredAt_never(d, t) ==
    FALSE

\* the expiry test of _apply_validation_update: now_datetime() > get_datetime(ex)
ExpiredAt(d, t) ==
    d.expires_at # NoTime /\ t > d.expires_at

\* variant of _apply_validation_update with the removed guard "already
\* EXPIRED stays EXPIRED" still in place
_apply_validation_update_sticky(d, data, t) ==
    LET d1 == _apply_expiry(d, data)
        active == has_active_activation(data) \/ data.timesActivated > 0
    IN  IF ExpiredAt(d1, t) \/ d.status = STATUS_EXPIRED
        THEN [d1 EXCEPT !.status = STATUS_EXPIRED,
                        !.reason = IF d1.reason # <<>> THEN d1.reason ELSE S_LicenseExpired,
                        !.grace_until = IF d1.grace_until = NoTime THEN t ELSE d1.grace_until,
                        !.last_validated = t]
        ELSE _clear_grace([d1 EXCEPT
                !.status = IF active THEN STATUS_VALIDATED ELSE STATUS_DEACTIVATED,
                !.reason = IF active THEN S_Validated ELSE S_ValidatedNoActive,
                !.last_validated = t])

\* variant of _apply_validation_update that looks at the activation data
\* first and at the expiry only when no activation is active
_apply_validation_update_activity_first(d, data, t) ==
    LET d1 == _apply_expiry(d, data)
        active == has_active_activation(data) \/ data.timesActivated > 0
    IN  IF ExpiredAt(d1, t) /\ ~active
        THEN [d1 EXCEPT !.status = STATUS_EXPIRED,
                        !.reason = IF d1.reason # <<>> THEN d1.reason ELSE S_LicenseExpired,
                        !.grace_until = IF d1.grace_until = NoTime THEN t ELSE d1.grace_until,
                        !.last_validated = t]
        ELSE _clear_grace([d1 EXCEPT
                !.status = IF active THEN STATUS_VALIDATED ELSE STATUS_DEACTIVATED,
                !.reason = IF active THEN S_Validated ELSE S_ValidatedNoActive,
                !.last_validated = t])

_apply_validation_update(d, data, t) ==
    LET d1 == _apply_expiry(d, data)
        active == has_active_activation(data) \/ data.timesActivated > 0
    IN  IF ExpiredAt(d1, t)
        THEN [d1 EXCEPT !.status = STATUS_EXPIRED,
                        !.reason = IF d1.reason # <<>> THEN d1.reason ELSE S_LicenseExpired,
                        !.grace_until = IF d1.grace_until = NoTime THEN t ELSE d1.grace_until,
                        !.last_validated = t]
        ELSE _clear_grace([d1 EXCEPT
                !.status = IF active THEN STATUS_VALIDATED ELSE STATUS_DEACTIVATED,
                !.reason = IF active THEN S_Validated ELSE S_ValidatedNoActive,
                !.last_validated = t])

SOFT_HOURS == 24
HARD_HOURS == 48

\* variant of _apply_grace_on_failure that locks as soon as the soft window
\* is over
_apply_grace_on_failure_hard_after_soft(d, reason, t) ==
    LET delta_seconds == t - d.last_validated
        st == IF d.last_validated = NoTime THEN STATUS_GRACE_SOFT
              ELSE IF delta_seconds <= SOFT_HOURS * SecondsPerHour THEN STATUS_GRACE_SOFT
              ELSE STATUS_LOCK_HARD
    IN  [d EXCEPT !.reason = S_GracePrefix \o reason, !.status = st, !.grace_until = t]

\* variant of _apply_grace_on_failure that stores the end of the hard window
\* in grace_until
_apply_grace_on_failure_until_deadline(d, reason, t) ==
    LET delta_seconds == t - d.last_validated
        st == IF d.last_validated = NoTime THEN STATUS_GRACE_SOFT
              ELSE IF delta_seconds <= SOFT_HOURS * SecondsPerHour THEN STATUS_GRACE_SOFT
              ELSE IF delta_seconds >= HARD_HOURS * SecondsPerHour THEN STATUS_LOCK_HARD
              ELSE STATUS_GRACE_SOFT
    IN  [d EXCEPT !.reason = S_GracePrefix \o reason, !.status = st,
                  !.grace_until = t + HARD_HOURS * SecondsPerHour]

\* variant of _apply_grace_on_failure whose hard window starts after 48 h
\* instead of at 48 h
_apply_grace_on_failure_after_hard(d, reason, t) ==
    LET delta_seconds == t - d.last_validated
        st == IF d.last_validated = NoTime THEN STATUS_GRACE_SOFT
              ELSE IF delta_seconds > HARD_HOURS * SecondsPerHour THEN STATUS_LOCK_HARD
              ELSE STATUS_GRACE_SOFT
    IN  [d EXCEPT !.reason = S_GracePrefix \o reason, !.status = st, !.grace_until = t]

\* variant of _apply_grace_on_failure that never leaves a hard lock: the
\* status depends on the previous status as well
_apply_grace_on_failure_sticky_lock(d, reason, t) ==
    LET delta_seconds == t - d.last_validated
        st == IF d.status = STATUS_LOCK_HARD THEN STATUS_LOCK_HARD
              ELSE IF d.last_validated = NoTime THEN STATUS_GRACE_SOFT
              ELSE IF delta_seconds >= HARD_HOURS * SecondsPerHour THEN STATUS_LOCK_HARD
              ELSE STATUS_GRACE_SOFT
    IN  [d EXCEPT !.reason = S_GracePrefix \o reason, !.status = st, !.grace_until = t]

\* _apply_grace_on_failure; delta_hours is compared without dividing
_apply_grace_on_failure(d, reason, t) ==
    LET delta_seconds == t - d.last_validated
        st == IF d.last_validated = NoTime THEN STATUS_GRACE_SOFT
              ELSE IF delta_seconds <= SOFT_HOURS * SecondsPerHour THEN STATUS_GRACE_SOFT
              ELSE IF delta_seconds >= HARD_HOURS * SecondsPerHour THEN STATUS_LOCK_HARD
              ELSE STATUS_GRACE_SOFT
    IN  [d EXCEPT !.reason = S_GracePrefix \o reason, !.status = st, !.grace_until = t]

_mark_expired(d, reason, t) ==
    [d EXCEPT !.status = STATUS_EXPIRED,
              !.reason = IF reason # <<>> THEN reason ELSE S_LicenseExpired,
              !.grace_until = t]

\* variant of _preflight_refresh_token that applies the grace policy when
\* the validate call fails
_preflight_refresh_token_as_validate(d, out) ==
    IF out.kind = "ok"
    THEN IF TokenChanged(d, out.body)
         THEN [_maybe_update_token_from_payload(d, out.body) EXCEPT !.reason = S_TokenRotated]
         ELSE d
    ELSE _apply_grace_on_failure(d, out.err.msg, 0)

\* _preflight_refresh_token: the in-memory document after the validate call
_preflight_refresh_token(d, out) ==
    IF out.kind = "ok"
    THEN IF TokenChanged(d, out.body)
         THEN [_maybe_update_token_from_payload(d, out.body) EXCEPT !.reason = S_TokenRotated]
         ELSE d
    ELSE d

(***************************************************************************)
(* Results of a public operation                                           *)
(***************************************************************************)
\* the operation returned data
Return(data) ==
    [kind |-> "return", exc |-> "none", msg |-> <<>>, data |-> data]

\* frappe.throw(msg): the user-facing failure
Throw(msg) ==
    [kind |-> "throw", exc |-> "ValidationError", msg |-> msg, data |-> NoData]

\* an exception of the client left the operation unhandled
Escape(e) ==
    [kind |-> "raise", exc |-> e.exc, msg |-> e.msg, data |-> NoData]

NoResult ==
    [kind |-> "none", exc |-> "none", msg |-> <<>>, data |-> NoData]

(***************************************************************************)
(* LMFWCClient.activate: the idempotency lock                              *)
(***************************************************************************)
\* idempotent_window_s: the time to live of a lock key, in seconds
Window == 8

\* the seconds of client time explored
MaxClientTime == 16

\* the processes that call client.activate
Callers == {1, 2}

\* a token longer than 16 characters that begins with TokUser
TokLong == "c3c3c3c3c3c3c3c3d4"

\* the tokens handed to client.activate ("" is None)
ClientTokens == {"", TokUser, TokLong}

\* tokfrag = (token or "none")[:16]; the other tokens of the model are
\* 16 characters long
TokFrag(tok) ==
    IF tok = "" THEN "none"
    ELSE IF tok = TokLong THEN TokUser
    ELSE tok

\* the lock keys of the model: the license key is LicKey in all of them
LockKeys == {TokFrag(tok) : tok \in ClientTokens}

\* a caller that has made no call yet
IdleCall ==
    [pc |-> "idle", tok |-> "", at |-> NoTime, up |-> TRUE, acquired |-> FALSE,
     status |-> NoStatus, sent |-> FALSE]

\* variant of _frappe_cache_setnx that takes any answer of the pipeline for
\* an acquired lock
_frappe_cache_setnx_any_answer(cl, key) ==
    [acquired |-> TRUE,
     lock |-> IF cl.up THEN [cl.lock EXCEPT ![key] = cl.t + Window] ELSE cl.lock,
     value |-> IF cl.up /\ cl.lock[key] <= cl.t
               THEN [cl.value EXCEPT ![key] = cl.t] ELSE cl.value]

\* variant of _frappe_cache_setnx that fails closed: an unreachable store
\* counts as a lock that is held
_frappe_cache_setnx_fails_closed(cl, key) ==
    IF cl.up
    THEN [acquired |-> cl.lock[key] <= cl.t,
          lock |-> [cl.lock EXCEPT ![key] = cl.t + Window],
          value |-> IF cl.lock[key] <= cl.t
                    THEN [cl.value EXCEPT ![key] = cl.t] ELSE cl.value]
    ELSE [acquired |-> FALSE, lock |-> cl.lock, value |-> cl.value]

\* _frappe_cache_setnx(lock_key, idempotent_window_s) on the lock store of
\* cl: setnx and expire run in one pipeline; res[0] == 1 when the key was
\* not there; a store that cannot be reached makes the function return True
_frappe_cache_setnx(cl, key) ==
    IF cl.up
    THEN [acquired |-> cl.lock[key] <= cl.t,
          lock |-> [cl.lock EXCEPT ![key] = cl.t + Window],
          value |-> IF cl.lock[key] <= cl.t
                    THEN [cl.value EXCEPT ![key] = cl.t] ELSE cl.value]
    ELSE [acquired |-> TRUE, lock |-> cl.lock, value |-> cl.value]

(***************************************************************************)
(* LMFWCClient._get and _handle_response                                   *)
(***************************************************************************)
retry_count == 3
retry_backoff_seconds == 2

\* str(n) of a natural number
RECURSIVE Str(_)
Str(n) ==
    IF n < 10 THEN <<DigitChars[n + 1]>>
    ELSE Str(n \div 10) \o <<DigitChars[(n % 10) + 1]>>

\* what requests.get raises instead of answering: Timeout and
\* ConnectionError are the transport failures, TooManyRedirects is neither
RequestFailures ==
    { [exc |-> "Timeout", transport |-> TRUE, msg |-> <<"t", "i", "m", "e", "d", " ", "o", "u", "t">>],
      [exc |-> "ConnectionError", transport |-> TRUE,
       msg |-> <<"c", "o", "n", "n", "e", "c", "t", "i", "o", "n", " ", "r", "e", "f", "u", "s", "e", "d">>],
      [exc |-> "TooManyRedirects", transport |-> FALSE,
       msg |-> <<"E", "x", "c", "e", "e", "d", "e", "d", " ", "3", "0", " ", "r", "e", "d", "i", "r", "e", "c", "t", "s", ".">>] }

\* a JSON body: its top-level "message", whether it has a "data" key,
\* whether data is an object, and the "errors" (code and messages, in
\* order) and "error_data" (code and status) entries of data; items are the
\* elements of a data that is a list
JBody(message, has_data, object, has_errors, errors, has_error_data, error_data) ==
    [message |-> message, has_data |-> has_data,
     data |-> [object |-> object, items |-> <<>>,
               has_errors |-> has_errors, errors |-> errors,
               has_error_data |-> has_error_data, error_data |-> error_data]]

\* a JSON body whose data is the list of items; an item is a string
\* (is_str, with its text) or a value of another type
JListBody(items) ==
    [JBody(<<>>, TRUE, FALSE, FALSE, <<>>, FALSE, <<>>) EXCEPT !.data.items = items]

\* str(e) of the exception resp.json() raises on a text that does not start
\* a JSON value, the empty text among them:
\* "Expecting value: line 1 column 1 (char 0)"
M_JsonError ==
    <<"E", "x", "p", "e", "c", "t", "i", "n", "g", " ", "v", "a", "l", "u", "e", ":", " ",
      "l", "i", "n", "e", " ", "1", " ", "c", "o", "l", "u", "m", "n", " ", "1", " ",
      "(", "c", "h", "a", "r", " ", "0", ")">>

\* an HTTP response: status code, whether the Content-Type names json,
\* whether resp.json() parses the text, the body it parses to, and the text
\* of the exception it raises when it does not
Responses ==
    LET plain == JBody(<<>>, TRUE, TRUE, FALSE, <<>>, FALSE, <<>>)
        bare  == JBody(<<>>, FALSE, FALSE, FALSE, <<>>, FALSE, <<>>)
        list  == JBody(<<>>, TRUE, FALSE, FALSE, <<>>, FALSE, <<>>)
        two   == JBody(M_Invalid, TRUE, TRUE,
                       TRUE, << [code |-> CODE_EXPIRED, msgs |-> <<M_NotValid, M_Invalid>>],
                                [code |-> CODE_DATA, msgs |-> <<M_Invalid>>] >>,
                       TRUE, << [code |-> CODE_DATA, status |-> 404],
                                [code |-> CODE_EXPIRED, status |-> 405] >>)
        errs  == JBody(<<>>, TRUE, TRUE,
                       TRUE, << [code |-> CODE_DATA, msgs |-> <<M_Invalid>>] >>, FALSE, <<>>)
        edata == JBody(<<>>, TRUE, TRUE,
                       FALSE, <<>>, TRUE, << [code |-> CODE_DATA, status |-> 404] >>)
        empty == JBody(<<>>, TRUE, TRUE,
                       TRUE, << [code |-> CODE_DATA, msgs |-> <<>>] >>,
                       TRUE, << [code |-> CODE_DATA, status |-> 404] >>)
        none  == JBody(<<>>, TRUE, TRUE, TRUE, <<>>, FALSE, <<>>)
        boom  == JListBody(<< [is_str |-> FALSE, text |-> <<>>],
                              [is_str |-> TRUE, text |-> M_NotValid],
                              [is_str |-> TRUE, text |-> M_Invalid] >>)
        nums  == JListBody(<< [is_str |-> FALSE, text |-> <<>>] >>)
    IN  { [status |-> 200, ctype_json |-> TRUE, parses |-> TRUE, body |-> b,
           json_error |-> <<>>] :
              b \in {plain, bare, list, two, errs, edata, empty, none, boom} }
        \cup
        { [status |-> st, ctype_json |-> TRUE, parses |-> TRUE, body |-> b,
           json_error |-> <<>>] :
              st \in {400}, b \in {errs, list, boom, nums} }
        \cup
        { [status |-> 399, ctype_json |-> TRUE, parses |-> TRUE, body |-> plain,
           json_error |-> <<>>],
          [status |-> 200, ctype_json |-> TRUE, parses |-> FALSE, body |-> bare,
           json_error |-> M_JsonError],
          [status |-> 200, ctype_json |-> FALSE, parses |-> FALSE, body |-> bare,
           json_error |-> M_JsonError],
          [status |-> 404, ctype_json |-> TRUE, parses |-> TRUE, body |-> two,
           json_error |-> <<>>],
          [status |-> 403, ctype_json |-> TRUE, parses |-> FALSE, body |-> bare,
           json_error |-> M_JsonError],
          [status |-> 500, ctype_json |-> FALSE, parses |-> TRUE, body |-> boom,
           json_error |-> <<>>],
          [status |-> 500, ctype_json |-> FALSE, parses |-> TRUE, body |-> two,
           json_error |-> <<>>] }

\* _extract_embedded_error(errs, err_data): the first code of errs (or
\* "lmfwc_error"), its first message (<<>> is None) and the status that
\* err_data holds for the code (NoStatus is None)
_extract_embedded_error(errs, err_data) ==
    LET code == IF errs # <<>> THEN errs[1].code ELSE "lmfwc_error"
        msg == IF errs # <<>> /\ errs[1].msgs # <<>> THEN errs[1].msgs[1] ELSE <<>>
        hits == {i \in 1..Len(err_data) : err_data[i].code = code}
    IN  [code |-> code, msg |-> msg,
         status |-> IF hits = {} THEN NoStatus
                    ELSE err_data[CHOOSE i \in hits : TRUE].status]

\* the outcome of a request: what _get returns or raises.  value is the
\* returned body, payload the body (or "raw") an exception carries
GetResult(kind, msg, status, value, payload) ==
    [kind |-> kind, msg |-> msg, status |-> status, value |-> value, payload |-> payload]

\* variant of _handle_response that looks for errors embedded in the body
\* before it looks at the HTTP status
_handle_response_body_first(resp) ==
    IF /\ resp.parses /\ resp.body.has_data /\ resp.body.data.object
       /\ (resp.body.data.has_errors \/ resp.body.data.has_error_data)
    THEN LET e == _extract_embedded_error(resp.body.data.errors, resp.body.data.error_data)
         IN  GetResult("ContractError",
                       IF e.msg # <<>> THEN e.msg
                       ELSE <<"O", "p", "e", "r", "a", "t", "i", "o", "n", " ",
                              "f", "a", "i", "l", "e", "d">>,
                       e.status, "none", resp.body)
    ELSE IF resp.status >= 400
    THEN GetResult("RequestError", <<"H", "T", "T", "P", " ">> \o Str(resp.status),
                   resp.status, "none", "raw")
    ELSE IF ~resp.parses
    THEN GetResult("ContractError", <<>>, resp.status, "none", "raw")
    ELSE GetResult("ok", <<>>, resp.status, resp.body, "none")

\* _extract_http_error_message(payload) of a payload that is a JSON body:
\* its "message" when there is one, else the first string among the
\* elements of a member that is a list, else <<>> (None)
_extract_http_error_message(body) ==
    IF body.message # <<>> THEN body.message
    ELSE LET items == IF body.has_data /\ ~body.data.object THEN body.data.items ELSE <<>>
             strs == {i \in 1..Len(items) : items[i].is_str}
         IN  IF strs = {} THEN <<>>
             ELSE items[CHOOSE i \in strs : \A j \in strs : i <= j].text

\* _handle_response(resp)
_handle_response(resp) ==
    IF resp.status >= 400
    THEN LET json == resp.ctype_json /\ resp.parses
             message == IF json THEN _extract_http_error_message(resp.body) ELSE <<>>
         IN  GetResult("RequestError",
                       IF message # <<>> THEN message
                       ELSE <<"H", "T", "T", "P", " ">> \o Str(resp.status),
                       resp.status, "none", IF json THEN resp.body ELSE "raw")
    ELSE IF ~resp.parses
    THEN GetResult("ContractError",
                   <<"I", "n", "v", "a", "l", "i", "d", " ", "J", "S", "O", "N", " ",
                     "r", "e", "s", "p", "o", "n", "s", "e", ":", " ">> \o resp.json_error,
                   resp.status, "none", "raw")
    ELSE IF /\ resp.body.has_data /\ resp.body.data.object
            /\ (resp.body.data.has_errors \/ resp.body.data.has_error_data)
    THEN LET e == _extract_embedded_error(resp.body.data.errors, resp.body.data.error_data)
         IN  GetResult("ContractError",
                       IF e.msg # <<>> THEN e.msg
                       ELSE <<"O", "p", "e", "r", "a", "t", "i", "o", "n", " ",
                              "f", "a", "i", "l", "e", "d">>,
                       e.status, "none", resp.body)
    ELSE GetResult("ok", <<>>, resp.status, resp.body, "none")

\* no response: the status line was never received
NoResponse ==
    [status |-> NoStatus, ctype_json |-> FALSE, parses |-> FALSE,
     body |-> JBody(<<>>, FALSE, FALSE, FALSE, <<>>, FALSE, <<>>), json_error |-> <<>>]

\* no request loop is running
IdleGet ==
    [pc |-> "idle", attempt |-> 0, tries |-> 0, slept |-> <<>>, last_exc |-> "none",
     resp |-> NoResponse, res |-> GetResult("none", <<>>, NoStatus, "none", "none")]

\* the client before any call: clock, lock store (reachable, no key set),
\* callers and request loop
IdleClient ==
    [t |-> 0, up |-> TRUE, lock |-> [k \in LockKeys |-> 0],
     value |-> [k \in LockKeys |-> NoTime],
     call |-> [c \in Callers |-> IdleCall], get |-> IdleGet]

(***************************************************************************)
(* The cron job in the worker processes                                    *)
(***************************************************************************)
Workers == {1, 2, 3}

\* no run of the cron job is under way and the file lock is free
IdleJobs ==
    [holder |-> 0, pc |-> [w \in Workers |-> "idle"],
     mem |-> [w \in Workers |-> NewDoc("")]]

(***************************************************************************)
(* State                                                                   *)
(*  doc  : the persisted License Settings document                         *)
(*  now  : now_datetime()                                                  *)
(*  run  : the manual operation in flight: its position, the document it   *)
(*         loaded and mutates in memory, its parameters and call counts    *)
(*  last : the operation the latest step completed and how it ended;       *)
(*         NoLast after a step that completes no operation                 *)
(*  client : the calls of LMFWCClient looked at on their own: the          *)
(*         idempotency lock store, the callers of activate and the         *)
(*         request loop of _get                                            *)
(*  jobs : the runs of the cron job in the worker processes and the        *)
(*         global file lock they take                                      *)
(*  pick : a call of _extract_latest_token looked at on its own: the       *)
(*         response handed in and the token returned                       *)
(*  gate : the latest request enforce_request looked at since the clock    *)
(*         moved, and whether it let the request pass                      *)
(***************************************************************************)
\* no request has reached enforce_request
IdleGate ==
    [method |-> "none", path |-> "none", verdict |-> "none"]

\* no call of _extract_latest_token has been made: an empty wrapped response
IdlePick ==
    [pc |-> "input", payload |-> Body(TRUE, Data(NoTime, "list", <<>>, 0)), token |-> ""]

IdleRun ==
    [op |-> "none", pc |-> "idle", mem |-> NewDoc(""), lk |-> "", token |-> "",
     eff |-> "", payload |-> NoData, prev |-> STATUS_UNCONFIGURED,
     nval |-> 0, nact |-> 0, ndeact |-> 0]

NoLast ==
    [op |-> "none", lk |-> "", token |-> "", sent |-> "", prev |-> STATUS_UNCONFIGURED,
     out |-> NoOutcome, res |-> NoResult, nval |-> 0, nact |-> 0, ndeact |-> 0,
     saved |-> FALSE]

Init ==
    /\ doc = NewDoc(LicKey)
    /\ now = StartTime
    /\ run = IdleRun
    /\ last = NoLast
    /\ client = IdleClient
    /\ jobs = IdleJobs
    /\ pick = IdlePick
    /\ gate = IdleGate

\* variant of Finish whose save gives way to a save the cron job made in the
\* step before
Finish_yields_to_job(r, d, saved, sent, out, res) ==
    /\ doc' = IF saved /\ ~(last.op = "scheduled_auto_validate" /\ last.saved) THEN d ELSE doc
    /\ run' = IdleRun
    /\ last' = [op |-> r.op, lk |-> r.lk, token |-> r.token, sent |-> sent, prev |-> r.prev,
                out |-> out, res |-> res, nval |-> r.nval, nact |-> r.nact,
                ndeact |-> r.ndeact, saved |-> saved]
    /\ UNCHANGED <<now, client, jobs, pick, gate>>

\* the manual operation r ends: d is saved when saved holds, res goes to the caller
Finish(r, d, saved, sent, out, res) ==
    /\ doc' = IF saved THEN d ELSE doc
    /\ run' = IdleRun
    /\ last' = [op |-> r.op, lk |-> r.lk, token |-> r.token, sent |-> sent, prev |-> r.prev,
                out |-> out, res |-> res, nval |-> r.nval, nact |-> r.nact,
                ndeact |-> r.ndeact, saved |-> saved]
    /\ UNCHANGED <<now, client, jobs, pick, gate>>

\* the manual operation moves on to its next remote call
Continue(r) ==
    /\ run' = r
    /\ last' = NoLast
    /\ UNCHANGED <<doc, now, client, jobs, pick, gate>>

\* variant of Begin that goes on to the first remote call without the check
\* of the license key
Begin_without_key_check(op, lkp, tokp, pc1, eff) ==
    /\ run.pc = "idle"
    /\ LET lk == IF lkp # "" THEN lkp ELSE doc.license_key
       IN  Continue([IdleRun EXCEPT !.op = op, !.mem = doc, !.lk = lk, !.token = tokp,
                                    !.eff = eff, !.prev = doc.status, !.pc = pc1])

\* frappe.get_single and the license key check every public operation starts with
Begin(op, lkp, tokp, pc1, eff) ==
    /\ run.pc = "idle"
    /\ LET lk == IF lkp # "" THEN lkp ELSE doc.license_key
           r == [IdleRun EXCEPT !.op = op, !.mem = doc, !.lk = lk, !.token = tokp,
                                !.eff = eff, !.prev = doc.status]
       IN  IF lk = ""
           THEN Finish(r, doc, FALSE, "", NoOutcome, Throw(T_KeyRequired))
           ELSE Continue([r EXCEPT !.pc = pc1])

(***************************************************************************)
(* activate_license                                                        *)
(***************************************************************************)
\* variant of ActivateSeesExpiry that takes every client error for an expiry
ActivateSeesExpiry_any(e) ==
    TRUE

\* the expiry test of activate_license's handler
ActivateSeesExpiry(e) ==
    \/ \E i \in 1..Len(e.codes) : e.codes[i] = CODE_EXPIRED
    \/ Contains(P_expire, Lower(e.msg))

\* variant of ActivateMarkExpired that restarts grace_until on every detection
ActivateMarkExpired_restamps(d, e, t) ==
    LET dt == _parse_expiry_from_msg(e.msg)
    IN  [d EXCEPT !.expires_at = IF dt # NoTime THEN dt ELSE d.expires_at,
                  !.status = STATUS_EXPIRED,
                  !.reason = IF e.msg # <<>> THEN e.msg ELSE S_LicenseExpired,
                  !.grace_until = t,
                  !.last_validated = t]

\* the expired branch of activate_license's handler
ActivateMarkExpired(d, e, t) ==
    LET dt == _parse_expiry_from_msg(e.msg)
    IN  [d EXCEPT !.expires_at = IF dt # NoTime THEN dt ELSE d.expires_at,
                  !.status = STATUS_EXPIRED,
                  !.reason = IF e.msg # <<>> THEN e.msg ELSE S_LicenseExpired,
                  !.grace_until = IF d.grace_until = NoTime THEN t ELSE d.grace_until,
                  !.last_validated = t]

\* the success path shared by activate_license and _activate_via_client
ActivateSuccess(d, body, t) ==
    _maybe_update_token_from_payload(_apply_activation_update(d, _extract_data(body), t), body)

activate_license_begin(lkp, tokp) ==
    Begin("activate_license", lkp, tokp, "activate", tokp)

activate_license_call(out) ==
    /\ run.op = "activate_license" /\ run.pc = "activate"
    /\ LET r == [run EXCEPT !.nact = run.nact + 1]
       IN  IF out.kind = "ok"
           THEN Finish(r, ActivateSuccess(run.mem, out.body, now), TRUE, run.token, out,
                       Return(_extract_data(out.body)))
           ELSE IF out.kind \in {"RequestError", "ContractError"}
           THEN IF ActivateSeesExpiry(out.err)
                THEN Finish(r, ActivateMarkExpired(run.mem, out.err, now), TRUE, run.token, out,
                            Throw(T_Expired))
                ELSE Finish(r, run.mem, FALSE, run.token, out, Throw(T_Failed))
           ELSE Finish(r, run.mem, FALSE, run.token, out, Throw(T_Unexpected))

(***************************************************************************)
(* validate_license                                                        *)
(***************************************************************************)
\* the document validate_license saves for the outcome of client.validate
ValidateDoc(d, out, t) ==
    IF out.kind = "ok"
    THEN _maybe_update_token_from_payload(
             _apply_validation_update(d, _extract_data(out.body), t), out.body)
    ELSE IF out.kind \in {"RequestError", "ContractError"}
    THEN _apply_grace_on_failure(d, out.err.msg, t)
    ELSE _apply_grace_on_failure(d, S_UnexpectedPrefix \o out.err.msg, t)

\* what validate_license hands to its caller
ValidateResult(out) ==
    IF out.kind = "ok" THEN Return(_extract_data(out.body))
    ELSE IF out.kind \in {"RequestError", "ContractError"} THEN Throw(T_Failed)
    ELSE Throw(out.err.msg)

\* variant of ValidateShortCircuits: the early exit on EXPIRED that the
\* handler used to have
ValidateShortCircuits_on_expired(d) ==
    d.status = STATUS_EXPIRED

\* validate_license has no early exit on the stored status: whatever the
\* loaded document holds, the handler goes on to client.validate
ValidateShortCircuits(d) ==
    FALSE

\* an early exit would return without a remote call and without saving
validate_license_begin(lkp) ==
    IF (lkp # "" \/ doc.license_key # "") /\ ValidateShortCircuits(doc)
    THEN /\ run.pc = "idle"
         /\ Finish([IdleRun EXCEPT !.op = "validate_license", !.prev = doc.status,
                                   !.lk = IF lkp # "" THEN lkp ELSE doc.license_key],
                   doc, FALSE, "", NoOutcome, Return(NoData))
    ELSE Begin("validate_license", lkp, "", "validate", "")

validate_license_call(out) ==
    /\ run.op = "validate_license" /\ run.pc = "validate"
    /\ LET r == [run EXCEPT !.nval = run.nval + 1]
       IN  Finish(r, ValidateDoc(run.mem, out, now), TRUE, "", out, ValidateResult(out))

(***************************************************************************)
(* reactivate_license                                                      *)
(***************************************************************************)
reactivate_license_begin(lkp, tokp) ==
    Begin("reactivate_license", lkp, tokp, "preflight", "")

\* (doc.activation_token or "").strip() or (token or "").strip(): the token
\* of the in-memory document after the preflight, else the fallback
EffectiveToken(m, tok) ==
    IF m.activation_token # "" THEN m.activation_token ELSE tok

\* the preflight answered: pick the effective token
reactivate_license_preflight(out) ==
    /\ run.op = "reactivate_license" /\ run.pc = "preflight"
    /\ LET m == _preflight_refresh_token(run.mem, out)
           eff == EffectiveToken(m, run.token)
           r == [run EXCEPT !.mem = m, !.eff = eff, !.nval = run.nval + 1]
       IN  IF eff = ""
           THEN Finish(r, m, FALSE, "", out, Throw(T_TokenRequired))
           ELSE Continue([r EXCEPT !.pc = "activate"])

\* the retry test of reactivate_license (case-sensitive substring tests)
IsActivationLimit(msg) ==
    Contains(P_ActivationLimit, msg) \/ Contains(P_maximum_activation, msg)

\* the first _activate_via_client answered
reactivate_license_activate(out) ==
    /\ run.op = "reactivate_license" /\ run.pc = "activate"
    /\ LET r == [run EXCEPT !.nact = run.nact + 1]
       IN  IF out.kind = "ok"
           THEN Finish(r, ActivateSuccess(run.mem, out.body, now), TRUE, run.eff, out,
                       Return(_extract_data(out.body)))
           ELSE IF out.kind = "ContractError"
           THEN IF _is_expired_error(out.err.msg)
                THEN Finish(r, _mark_expired(run.mem, out.err.msg, now), TRUE, run.eff, out,
                            Throw(T_Expired))
                ELSE IF IsActivationLimit(out.err.msg)
                THEN Continue([r EXCEPT !.pc = "preflight2"])
                ELSE Finish(r, run.mem, FALSE, run.eff, out, Throw(T_Failed))
           ELSE Finish(r, run.mem, FALSE, run.eff, out, Escape(out.err))

\* variant of reactivate_license_preflight2 that retries with whatever token
\* it has, the first attempt's included
reactivate_license_preflight2_any_token(out) ==
    /\ run.op = "reactivate_license" /\ run.pc = "preflight2"
    /\ LET m == _preflight_refresh_token(run.mem, out)
           eff2 == EffectiveToken(m, run.eff)
           r == [run EXCEPT !.mem = m, !.nval = run.nval + 1]
       IN  IF eff2 # ""
           THEN Continue([r EXCEPT !.pc = "activate2"])
           ELSE Finish(r, m, FALSE, run.eff, out, Throw(T_LimitNoToken))

\* the second preflight answered: retry only with a different token
reactivate_license_preflight2(out) ==
    /\ run.op = "reactivate_license" /\ run.pc = "preflight2"
    /\ LET m == _preflight_refresh_token(run.mem, out)
           eff2 == EffectiveToken(m, run.eff)
           r == [run EXCEPT !.mem = m, !.nval = run.nval + 1]
       IN  IF eff2 # "" /\ eff2 # run.eff
           THEN Continue([r EXCEPT !.pc = "activate2"])
           ELSE Finish(r, m, FALSE, run.eff, out, Throw(T_LimitNoToken))

\* variant of reactivate_license_activate2 that starts another retry cycle
\* when the retried activate hits the activation limit again
reactivate_license_activate2_again(out) ==
    /\ run.op = "reactivate_license" /\ run.pc = "activate2"
    /\ LET r == [run EXCEPT !.nact = run.nact + 1]
           tok2 == run.mem.activation_token
       IN  IF out.kind = "ok"
           THEN Finish(r, ActivateSuccess(run.mem, out.body, now), TRUE, tok2, out,
                       Return(_extract_data(out.body)))
           ELSE IF out.kind = "ContractError" /\ IsActivationLimit(out.err.msg)
           THEN Continue([r EXCEPT !.pc = "preflight2", !.eff = tok2])
           ELSE IF out.kind = "RequestError" /\ Contains(P_idempotency_guard, Lower(out.err.msg))
           THEN Finish(r, run.mem, FALSE, tok2, out, Throw(T_Settling))
           ELSE Finish(r, run.mem, FALSE, tok2, out, Escape(out.err))

\* the retried _activate_via_client answered
reactivate_license_activate2(out) ==
    /\ run.op = "reactivate_license" /\ run.pc = "activate2"
    /\ LET r == [run EXCEPT !.nact = run.nact + 1]
           tok2 == run.mem.activation_token
       IN  IF out.kind = "ok"
           THEN Finish(r, ActivateSuccess(run.mem, out.body, now), TRUE, tok2, out,
                       Return(_extract_data(out.body)))
           ELSE IF out.kind = "RequestError" /\ Contains(P_idempotency_guard, Lower(out.err.msg))
           THEN Finish(r, run.mem, FALSE, tok2, out, Throw(T_Settling))
           ELSE Finish(r, run.mem, FALSE, tok2, out, Escape(out.err))

(***************************************************************************)
(* deactivate_license                                                      *)
(***************************************************************************)
\* variant of HardLock that stamps reason and grace_until but not the status
HardLock_keeps_status(d, reason, t) ==
    [d EXCEPT !.reason = reason, !.grace_until = t]

\* the policy decision deactivate_license takes on every path
HardLock(d, reason, t) ==
    [d EXCEPT !.status = STATUS_LOCK_HARD, !.reason = reason, !.grace_until = t]

\* variant of deactivate_license_begin that runs the preflight whether or
\* not the caller handed in a token
deactivate_license_begin_always_preflight(lkp, tokp) ==
    Begin("deactivate_license", lkp, tokp, "preflight", tokp)

deactivate_license_begin(lkp, tokp) ==
    Begin("deactivate_license", lkp, tokp, IF tokp = "" THEN "preflight" ELSE "deactivate", tokp)

\* the preflight answered: use the token held now, none means bulk mode
deactivate_license_preflight(out) ==
    /\ run.op = "deactivate_license" /\ run.pc = "preflight"
    /\ LET m == _preflight_refresh_token(run.mem, out)
       IN  Continue([run EXCEPT !.mem = m, !.eff = m.activation_token,
                                !.nval = run.nval + 1, !.pc = "deactivate"])

\* client.deactivate answered
deactivate_license_call(out) ==
    /\ run.op = "deactivate_license" /\ run.pc = "deactivate"
    /\ LET r == [run EXCEPT !.ndeact = run.ndeact + 1]
       IN  IF out.kind = "ok"
           THEN LET d1 == HardLock(_apply_deactivation_update(run.mem, _extract_data(out.body)),
                                   S_LicenseDeactivated, now)
                IN  Continue([r EXCEPT !.mem = [d1 EXCEPT !.activation_token = ""],
                                       !.payload = _extract_data(out.body),
                                       !.pc = "postvalidate"])
           ELSE IF out.kind \in {"RequestError", "ContractError"}
           THEN Finish(r, HardLock(run.mem, S_DeactFailedPrefix \o out.err.msg, now), TRUE,
                       run.eff, out, Throw(T_FailedLog))
           ELSE Finish(r, HardLock(run.mem, S_DeactUnexpectedPrefix \o out.err.msg, now), TRUE,
                       run.eff, out, Throw(out.err.msg))

\* variant of deactivate_license_postvalidate that lets the answer of the
\* validate stand instead of setting the hard lock again
deactivate_license_postvalidate_keeps_validate(out) ==
    /\ run.op = "deactivate_license" /\ run.pc = "postvalidate"
    /\ LET r == [run EXCEPT !.nval = run.nval + 1]
           d1 == IF out.kind = "ok"
                 THEN _apply_validation_update(run.mem, _extract_data(out.body), now)
                 ELSE run.mem
       IN  Finish(r, d1, TRUE, run.eff, out, Return(run.payload))

\* the best-effort validate after a successful deactivate answered
deactivate_license_postvalidate(out) ==
    /\ run.op = "deactivate_license" /\ run.pc = "postvalidate"
    /\ LET r == [run EXCEPT !.nval = run.nval + 1]
           d1 == IF out.kind = "ok"
                 THEN _apply_validation_update(run.mem, _extract_data(out.body), now)
                 ELSE run.mem
       IN  Finish(r, HardLock(d1, S_LicenseDeactivated, now), TRUE, run.eff, out,
                  Return(run.payload))

(***************************************************************************)
(* scheduled_auto_validate                                                 *)
(***************************************************************************)
\* worker w starts the job and waits for the global file lock
job_start(w) ==
    /\ jobs.pc[w] = "idle"
    /\ jobs' = [jobs EXCEPT !.pc[w] = "waiting"]
    /\ last' = NoLast
    /\ UNCHANGED <<doc, now, run, client, pick, gate>>

\* variant of job_acquire whose lock is not shared between the workers: the
\* worker goes on whether or not another one holds it
job_acquire_own_lock(w) ==
    /\ jobs.pc[w] = "waiting"
    /\ IF doc.license_key = ""
       THEN /\ jobs' = [jobs EXCEPT !.pc[w] = "idle"]
            /\ last' = [NoLast EXCEPT !.op = "scheduled_auto_validate", !.prev = doc.status,
                                      !.res = Return(NoData)]
       ELSE /\ jobs' = [jobs EXCEPT !.pc[w] = "validate", !.holder = w, !.mem[w] = doc]
            /\ last' = NoLast
    /\ UNCHANGED <<doc, now, run, client, pick, gate>>

\* worker w gets the lock and loads the record; without a license key it
\* returns at once, which releases the lock
job_acquire(w) ==
    /\ jobs.pc[w] = "waiting"
    /\ jobs.holder = 0
    /\ IF doc.license_key = ""
       THEN /\ jobs' = [jobs EXCEPT !.pc[w] = "idle"]
            /\ last' = [NoLast EXCEPT !.op = "scheduled_auto_validate", !.prev = doc.status,
                                      !.res = Return(NoData)]
       ELSE /\ jobs' = [jobs EXCEPT !.pc[w] = "validate", !.holder = w, !.mem[w] = doc]
            /\ last' = NoLast
    /\ UNCHANGED <<doc, now, run, client, pick, gate>>

\* the lock stays taken for the two seconds worker w waits: LockTimeoutError
job_timeout(w) ==
    /\ jobs.pc[w] = "waiting"
    /\ jobs.holder # 0
    /\ jobs' = [jobs EXCEPT !.pc[w] = "idle"]
    /\ last' = [NoLast EXCEPT !.op = "scheduled_auto_validate", !.prev = doc.status,
                              !.res = Return(NoData)]
    /\ UNCHANGED <<doc, now, run, client, pick, gate>>

\* variant of job_validate that leaves the lock taken when validate_license
\* failed
job_validate_keeps_lock_on_failure(w, out) ==
    /\ jobs.pc[w] = "validate"
    /\ doc' = ValidateDoc(jobs.mem[w], out, now)
    /\ jobs' = [jobs EXCEPT !.pc[w] = "idle", !.mem[w] = NewDoc(""),
                            !.holder = IF jobs.holder = w /\ out.kind = "ok"
                                       THEN 0 ELSE jobs.holder]
    /\ last' = [NoLast EXCEPT !.op = "scheduled_auto_validate",
                              !.lk = jobs.mem[w].license_key,
                              !.prev = jobs.mem[w].status, !.out = out,
                              !.res = Return(NoData), !.nval = 1, !.saved = TRUE]
    /\ UNCHANGED <<now, run, client, pick, gate>>

\* variant of job_validate without the except clause: the failure of
\* validate_license leaves the job
job_validate_uncaught(w, out) ==
    /\ jobs.pc[w] = "validate"
    /\ doc' = ValidateDoc(jobs.mem[w], out, now)
    /\ jobs' = [jobs EXCEPT !.pc[w] = "idle", !.mem[w] = NewDoc(""),
                            !.holder = IF jobs.holder = w THEN 0 ELSE jobs.holder]
    /\ last' = [NoLast EXCEPT !.op = "scheduled_auto_validate",
                              !.lk = jobs.mem[w].license_key,
                              !.prev = jobs.mem[w].status, !.out = out,
                              !.res = ValidateResult(out), !.nval = 1, !.saved = TRUE]
    /\ UNCHANGED <<now, run, client, pick, gate>>

\* validate_license(doc.license_key) of worker w ends: the record is saved,
\* a failure is caught and logged, the lock is released
job_validate(w, out) ==
    /\ jobs.pc[w] = "validate"
    /\ doc' = ValidateDoc(jobs.mem[w], out, now)
    /\ jobs' = [jobs EXCEPT !.pc[w] = "idle", !.mem[w] = NewDoc(""),
                            !.holder = IF jobs.holder = w THEN 0 ELSE jobs.holder]
    /\ last' = [NoLast EXCEPT !.op = "scheduled_auto_validate",
                              !.lk = jobs.mem[w].license_key,
                              !.prev = jobs.mem[w].status, !.out = out,
                              !.res = Return(NoData), !.nval = 1, !.saved = TRUE]
    /\ UNCHANGED <<now, run, client, pick, gate>>

\* the worker the cron job runs in when it is looked at together with the
\* manual operations
CronWorker == 1

\* the cron job fires: the file lock is free, the job loads the record and,
\* with a license key set, goes into client.validate; without one it returns
\* at once
scheduled_auto_validate_begin ==
    /\ jobs.pc[CronWorker] = "idle"
    /\ jobs.holder = 0
    /\ IF doc.license_key = ""
       THEN /\ last' = [NoLast EXCEPT !.op = "scheduled_auto_validate", !.prev = doc.status,
                                      !.res = Return(NoData)]
            /\ UNCHANGED jobs
       ELSE IF ValidateShortCircuits(doc)
       THEN /\ last' = [NoLast EXCEPT !.op = "scheduled_auto_validate", !.lk = doc.license_key,
                                      !.prev = doc.status, !.res = Return(NoData)]
            /\ UNCHANGED jobs
       ELSE /\ jobs' = [jobs EXCEPT !.pc[CronWorker] = "validate", !.holder = CronWorker,
                                    !.mem[CronWorker] = doc]
            /\ last' = NoLast
    /\ UNCHANGED <<doc, now, run, client, pick, gate>>

\* client.validate of the cron job comes back: the job saves the record it
\* loaded before the call, whatever was saved in between
scheduled_auto_validate(out) ==
    /\ jobs.holder = CronWorker
    /\ job_validate(CronWorker, out)

(***************************************************************************)
(* Clock                                                                   *)
(***************************************************************************)
\* a day passes between operations, with no run of the cron job under way
Tick ==
    /\ run.pc = "idle"
    /\ jobs.holder = 0
    /\ now < MaxNow
    /\ now' = now + DaySeconds
    /\ last' = NoLast
    /\ UNCHANGED <<doc, run, client, jobs, pick, gate>>

KeyParams == {"", LicKey}
TokenParams == {"", TokUser}

\* the operations one after the other: a manual operation starts when no run
\* of the cron job is under way, and the job fires between manual operations
Next ==
    \/ jobs.holder = 0 /\ \E lkp \in KeyParams, tokp \in TokenParams : activate_license_begin(lkp, tokp)
    \/ \E out \in ActivateOutcomes : activate_license_call(out)
    \/ jobs.holder = 0 /\ \E lkp \in KeyParams : validate_license_begin(lkp)
    \/ \E out \in ValidateOutcomes : validate_license_call(out)
    \/ jobs.holder = 0 /\ \E lkp \in KeyParams, tokp \in TokenParams : reactivate_license_begin(lkp, tokp)
    \/ \E out \in ValidateOutcomes : reactivate_license_preflight(out)
    \/ \E out \in ActivateOutcomes : reactivate_license_activate(out)
    \/ \E out \in ValidateOutcomes : reactivate_license_preflight2(out)
    \/ \E out \in ActivateOutcomes : reactivate_license_activate2(out)
    \/ jobs.holder = 0 /\ \E lkp \in KeyParams, tokp \in TokenParams : deactivate_license_begin(lkp, tokp)
    \/ \E out \in ValidateOutcomes : deactivate_license_preflight(out)
    \/ \E out \in DeactivateOutcomes : deactivate_license_call(out)
    \/ \E out \in ValidateOutcomes : deactivate_license_postvalidate(out)
    \/ run.pc = "idle" /\ scheduled_auto_validate_begin
    \/ \E out \in ValidateOutcomes : scheduled_auto_validate(out)
    \/ Tick

Spec == Init /\ [][Next]_vars

\* what a validate call meets where the operations overlap
OverlapOutcomes ==
    { Ok(Body(TRUE, Data(ExpMid, "dict", <<Rec(Tok1, NoTime, 10, 10)>>, 1))),
      Ok(Body(TRUE, Data(ExpEarly, "list", <<>>, 0))),
      Raised(Err("RequestError", M_Network, NoStatus, <<>>)) }

\* what an activate call meets where the operations overlap
OverlapActivateOutcomes ==
    { Ok(Body(TRUE, Data(ExpMid, "dict", <<Rec(Tok1, NoTime, 10, 10)>>, 1))),
      Raised(Err("ContractError", M_ExpiredOn, 405, <<CODE_EXPIRED>>)),
      Raised(Err("ContractError", M_MaxLimit, 404, <<CODE_DATA>>)),
      Raised(Err("RequestError", M_Network, NoStatus, <<>>)) }

\* the operations with the clock standing still and free to overlap: the
\* cron job loads the record and saves it at any two points of a manual
\* operation or around it, and a manual operation likewise of the job
NextConc ==
    \/ \E lkp \in KeyParams, tokp \in TokenParams : activate_license_begin(lkp, tokp)
    \/ \E out \in OverlapActivateOutcomes : activate_license_call(out)
    \/ \E lkp \in KeyParams : validate_license_begin(lkp)
    \/ \E out \in OverlapOutcomes : validate_license_call(out)
    \/ \E lkp \in KeyParams, tokp \in TokenParams : reactivate_license_begin(lkp, tokp)
    \/ \E out \in OverlapOutcomes : reactivate_license_preflight(out)
    \/ \E out \in OverlapActivateOutcomes : reactivate_license_activate(out)
    \/ \E out \in OverlapOutcomes : reactivate_license_preflight2(out)
    \/ \E out \in OverlapActivateOutcomes : reactivate_license_activate2(out)
    \/ \E lkp \in KeyParams, tokp \in TokenParams : deactivate_license_begin(lkp, tokp)
    \/ \E out \in OverlapOutcomes : deactivate_license_preflight(out)
    \/ \E out \in DeactivateOutcomes : deactivate_license_call(out)
    \/ \E out \in OverlapOutcomes : deactivate_license_postvalidate(out)
    \/ scheduled_auto_validate_begin
    \/ \E out \in OverlapOutcomes : scheduled_auto_validate(out)

SpecConc == Init /\ [][NextConc]_vars

(***************************************************************************)
(* The validate operations under a finer clock: the time that passes       *)
(* between two calls is drawn from the gaps at the edges of the grace      *)
(* windows                                                                 *)
(***************************************************************************)
HalfHour == 1800

\* the clock of this specification stops this many half hours after the start
MaxGraceSpan == 200

\* 24 h, 47.5 h, 48 h and 50 h
GraceGaps ==
    {48 * HalfHour, 95 * HalfHour, 96 * HalfHour, 100 * HalfHour}

\* time passes between two operations
Advance(g) ==
    /\ run.pc = "idle"
    /\ jobs.holder = 0
    /\ now + g <= StartTime + MaxGraceSpan * HalfHour
    /\ now' = now + g
    /\ last' = NoLast
    /\ UNCHANGED <<doc, run, client, jobs, pick, gate>>

NextGrace ==
    \/ jobs.holder = 0 /\ \E lkp \in KeyParams : validate_license_begin(lkp)
    \/ \E out \in ValidateOutcomes : validate_license_call(out)
    \/ run.pc = "idle" /\ scheduled_auto_validate_begin
    \/ \E out \in ValidateOutcomes : scheduled_auto_validate(out)
    \/ \E g \in GraceGaps : Advance(g)

SpecGrace == Init /\ [][NextGrace]_vars


(***************************************************************************)
(* The operations on a site whose License Settings hold no license key     *)
(***************************************************************************)
InitUnconfigured ==
    /\ doc = NewDoc("")
    /\ now = StartTime
    /\ run = IdleRun
    /\ last = NoLast
    /\ client = IdleClient
    /\ jobs = IdleJobs
    /\ pick = IdlePick
    /\ gate = IdleGate

\* without a stored license key the cron job returns as soon as it has
\* loaded the record, so no run of it is ever waiting for an answer
NextUnconfigured ==
    \/ \E lkp \in KeyParams, tokp \in TokenParams : activate_license_begin(lkp, tokp)
    \/ \E out \in OverlapActivateOutcomes : activate_license_call(out)
    \/ \E lkp \in KeyParams : validate_license_begin(lkp)
    \/ \E out \in OverlapOutcomes : validate_license_call(out)
    \/ \E lkp \in KeyParams, tokp \in TokenParams : reactivate_license_begin(lkp, tokp)
    \/ \E out \in OverlapOutcomes : reactivate_license_preflight(out)
    \/ \E out \in OverlapActivateOutcomes : reactivate_license_activate(out)
    \/ \E out \in OverlapOutcomes : reactivate_license_preflight2(out)
    \/ \E out \in OverlapActivateOutcomes : reactivate_license_activate2(out)
    \/ \E lkp \in KeyParams, tokp \in TokenParams : deactivate_license_begin(lkp, tokp)
    \/ \E out \in OverlapOutcomes : deactivate_license_preflight(out)
    \/ \E out \in DeactivateOutcomes : deactivate_license_call(out)
    \/ \E out \in OverlapOutcomes : deactivate_license_postvalidate(out)
    \/ scheduled_auto_validate_begin

SpecUnconfigured == InitUnconfigured /\ [][NextUnconfigured]_vars

(***************************************************************************)
(* Calls of LMFWCClient.activate from several processes against one lock   *)
(* store                                                                   *)
(***************************************************************************)
\* caller c enters activate(LicKey, tok): the lock attempt, and the 409 when
\* the guard is hit
activate_lock(c, tok) ==
    /\ client.call[c].pc = "idle"
    /\ LET r == _frappe_cache_setnx(client, TokFrag(tok))
       IN  client' = [client EXCEPT
               !.lock = r.lock,
               !.value = r.value,
               !.call[c] = [pc |-> IF r.acquired THEN "request" ELSE "idle",
                            tok |-> tok, at |-> client.t, up |-> client.up,
                            acquired |-> r.acquired,
                            status |-> IF r.acquired THEN NoStatus ELSE 409,
                            sent |-> FALSE]]
    /\ UNCHANGED <<doc, now, run, last, jobs, pick, gate>>

\* caller c holds the lock and issues the network request of _get
activate_request(c) ==
    /\ client.call[c].pc = "request"
    /\ client' = [client EXCEPT !.call[c].pc = "idle", !.call[c].sent = TRUE]
    /\ UNCHANGED <<doc, now, run, last, jobs, pick, gate>>

\* the lock store goes away or comes back
CacheFlip ==
    /\ client' = [client EXCEPT !.up = ~client.up]
    /\ UNCHANGED <<doc, now, run, last, jobs, pick, gate>>

\* the time between two calls: just inside the window, or the window
ClientGaps == {Window - 1, Window}

\* g seconds pass; the store drops the keys whose time to live is over
ClientWait(g) ==
    /\ client.t + g <= MaxClientTime
    /\ client' = [client EXCEPT
           !.t = client.t + g,
           !.lock = [k \in LockKeys |->
                        IF client.lock[k] <= client.t + g THEN 0 ELSE client.lock[k]],
           !.value = [k \in LockKeys |->
                        IF client.lock[k] <= client.t + g THEN NoTime ELSE client.value[k]]]
    /\ UNCHANGED <<doc, now, run, last, jobs, pick, gate>>

NextLock ==
    \/ \E c \in Callers, tok \in ClientTokens : activate_lock(c, tok)
    \/ \E c \in Callers : activate_request(c)
    \/ CacheFlip
    \/ \E g \in ClientGaps : ClientWait(g)

SpecLock == Init /\ [][NextLock]_vars

(***************************************************************************)
(* One request loop of LMFWCClient._get                                    *)
(***************************************************************************)
\* _get is entered: attempt = 0, last_exc = None
get_begin ==
    /\ client.get.pc \in {"idle", "done"}
    /\ client' = [client EXCEPT !.get = [IdleGet EXCEPT !.pc = "request"]]
    /\ UNCHANGED <<doc, now, run, last, jobs, pick, gate>>

\* one pass of the while loop: requests.get raises f
get_attempt_fails(f) ==
    /\ client.get.pc = "request"
    /\ client.get.attempt <= retry_count
    /\ LET g == [client.get EXCEPT !.tries = client.get.tries + 1]
       IN  client' = [client EXCEPT !.get =
               IF ~f.transport
               THEN [g EXCEPT !.pc = "done",
                              !.res = GetResult(f.exc, f.msg, NoStatus, "none", "none")]
               ELSE IF g.attempt = retry_count
               THEN [g EXCEPT !.pc = "done", !.last_exc = f.exc,
                              !.res = GetResult("RequestError",
                                  <<"N", "e", "t", "w", "o", "r", "k", " ",
                                    "e", "r", "r", "o", "r", ":", " ">> \o f.msg,
                                  NoStatus, "none", "none")]
               ELSE [g EXCEPT !.last_exc = f.exc,
                              !.slept = Append(g.slept, retry_backoff_seconds * (2 ^ g.attempt)),
                              !.attempt = g.attempt + 1]]
    /\ UNCHANGED <<doc, now, run, last, jobs, pick, gate>>

\* variant of get_attempt_answers that also retries a server error (HTTP
\* status 500 and above) as long as retries are left
get_attempt_answers_retries_5xx(resp) ==
    /\ client.get.pc = "request"
    /\ client.get.attempt <= retry_count
    /\ client' = [client EXCEPT !.get =
           IF resp.status >= 500 /\ client.get.attempt < retry_count
           THEN [client.get EXCEPT !.tries = client.get.tries + 1,
                                   !.slept = Append(client.get.slept,
                                       retry_backoff_seconds * (2 ^ client.get.attempt)),
                                   !.attempt = client.get.attempt + 1]
           ELSE [client.get EXCEPT !.tries = client.get.tries + 1, !.pc = "done",
                                   !.resp = resp, !.res = _handle_response(resp)]]
    /\ UNCHANGED <<doc, now, run, last, jobs, pick, gate>>

\* one pass of the while loop: requests.get answers resp
get_attempt_answers(resp) ==
    /\ client.get.pc = "request"
    /\ client.get.attempt <= retry_count
    /\ client' = [client EXCEPT !.get =
           [client.get EXCEPT !.tries = client.get.tries + 1, !.pc = "done",
                              !.resp = resp, !.res = _handle_response(resp)]]
    /\ UNCHANGED <<doc, now, run, last, jobs, pick, gate>>

NextGet ==
    \/ get_begin
    \/ \E f \in RequestFailures : get_attempt_fails(f)
    \/ \E resp \in Responses : get_attempt_answers(resp)

SpecGet == Init /\ [][NextGet]_vars

(***************************************************************************)
(* Runs of scheduled_auto_validate started in several worker processes     *)
(***************************************************************************)
InitJobs ==
    /\ doc \in {NewDoc(""), NewDoc(LicKey)}
    /\ now = StartTime
    /\ run = IdleRun
    /\ last = NoLast
    /\ client = IdleClient
    /\ jobs = IdleJobs
    /\ pick = IdlePick
    /\ gate = IdleGate

NextJobs ==
    \/ \E w \in Workers : job_start(w)
    \/ \E w \in Workers : job_acquire(w)
    \/ \E w \in Workers : job_timeout(w)
    \/ \E w \in Workers, out \in ValidateOutcomes : job_validate(w, out)

SpecJobs == InitJobs /\ [][NextJobs]_vars

\* the runs of the cron job under fair scheduling: a worker waiting for the
\* lock gets its answer from filelock within the two seconds of its timeout,
\* and the validate call of the worker holding the lock comes back
SpecJobsFair ==
    /\ InitJobs /\ [][NextJobs]_vars
    /\ \A w \in Workers : WF_vars(job_acquire(w) \/ job_timeout(w))
    /\ \A w \in Workers : WF_vars(\E out \in ValidateOutcomes : job_validate(w, out))

(***************************************************************************)
(* Calls of _extract_latest_token on responses built record by record      *)
(***************************************************************************)
\* the longest activationData list handed to the selector
MaxRecs == 3

\* the activation records of a response: with and without token, active and
\* deactivated, updated_at missing, unparsable and at two instants,
\* created_at missing and later than both
PickRecords ==
    { Rec(tok, deact, upd, cre) :
        tok \in {"", Tok1, Tok2}, deact \in {NoTime, 30},
        upd \in {NoTime, BadTime, 10, 20}, cre \in {NoTime, 30} }

\* the response under construction gets one more record in its list
pick_record(rec) ==
    /\ pick.pc = "input"
    /\ pick.payload.data.activationData.kind = "list"
    /\ Len(pick.payload.data.activationData.recs) < MaxRecs
    /\ pick' = [pick EXCEPT !.payload.data.activationData.recs = Append(@, rec)]
    /\ UNCHANGED <<doc, now, run, last, client, jobs, gate>>

\* the response holds a single activation object instead of a list
pick_object(rec) ==
    /\ pick.pc = "input"
    /\ pick.payload.data.activationData = [kind |-> "list", recs |-> <<>>]
    /\ pick' = [pick EXCEPT !.payload.data.activationData = [kind |-> "dict", recs |-> <<rec>>]]
    /\ UNCHANGED <<doc, now, run, last, client, jobs, gate>>

\* the selector is called on the response
pick_extract ==
    /\ pick.pc = "input"
    /\ pick' = [pick EXCEPT !.pc = "done", !.token = _extract_latest_token(pick.payload)]
    /\ UNCHANGED <<doc, now, run, last, client, jobs, gate>>

\* the response comes in the canonical wrapper or bare
InitPick ==
    /\ doc = NewDoc(LicKey)
    /\ now = StartTime
    /\ run = IdleRun
    /\ last = NoLast
    /\ client = IdleClient
    /\ jobs = IdleJobs
    /\ pick \in {[IdlePick EXCEPT !.payload.wrapped = w] : w \in BOOLEAN}
    /\ gate = IdleGate

NextPick ==
    \/ \E rec \in PickRecords : pick_record(rec)
    \/ \E rec \in PickRecords : pick_object(rec)
    \/ pick_extract

SpecPick == InitPick /\ [][NextPick]_vars

(***************************************************************************)
(* The request gate of overrides.py reading the record the controller      *)
(* keeps                                                                   *)
(***************************************************************************)
BLOCK_STATUSES == {STATUS_REVOKED, STATUS_LOCK_HARD}

SOFT_LOCK_STATUSES == {STATUS_DEACTIVATED, STATUS_GRACE_SOFT}

\* _is_grace_over at time t
_is_grace_over(grace_until, t) ==
    IF grace_until = NoTime THEN FALSE ELSE t > grace_until

\* the requests that reach the gate: the method, and whether the path is on
\* the allowlist, is an access to License Settings, or is any other path
Requests ==
    { [method |-> m, path |-> p] :
        m \in {"GET", "POST", "PUT", "PATCH", "DELETE", "OPTIONS"},
        p \in {"allowlisted", "license_settings", "other"} }

\* enforce_request on request req: it returns, or throws PermissionError
enforce_request(req) ==
    /\ gate' = [method |-> req.method, path |-> req.path,
                verdict |->
                    IF req.method = "OPTIONS" THEN "allow"
                    ELSE IF req.path = "allowlisted" THEN "allow"
                    ELSE IF req.path = "license_settings" THEN "allow"
                    ELSE IF doc.status \in BLOCK_STATUSES THEN "PermissionError"
                    ELSE IF doc.status = STATUS_EXPIRED
                    THEN IF _is_grace_over(doc.grace_until, now)
                         THEN "PermissionError" ELSE "allow"
                    ELSE IF doc.status \in SOFT_LOCK_STATUSES
                    THEN IF req.method \in {"POST", "PUT", "PATCH", "DELETE"}
                         THEN "PermissionError" ELSE "allow"
                    ELSE "allow"]
    /\ last' = NoLast
    /\ UNCHANGED <<doc, now, run, client, jobs, pick>>

\* the tolerance the gate's comment grants an expired license
ToleranceHours == 24

\* the time between two requests or operations: six hours, or the tolerance
GateGaps == {6 * SecondsPerHour, ToleranceHours * SecondsPerHour}

\* the clock of this specification stops this many hours after the start
MaxGateHours == 36

\* g seconds pass
GateWait(g) ==
    /\ run.pc = "idle"
    /\ jobs.holder = 0
    /\ now + g <= StartTime + MaxGateHours * SecondsPerHour
    /\ now' = now + g
    /\ last' = NoLast
    /\ gate' = IdleGate
    /\ UNCHANGED <<doc, run, client, jobs, pick>>

\* what activate meets at the server of an expired license, and one success
GateOutcomes ==
    {Raised(e) : e \in ExpiryErrors} \cup
    {Ok(Body(TRUE, Data(ExpMid, "dict", <<Rec(Tok1, NoTime, 10, 10)>>, 1)))}

NextGate ==
    \/ jobs.holder = 0 /\ \E tokp \in TokenParams : activate_license_begin("", tokp)
    \/ \E out \in GateOutcomes : activate_license_call(out)
    \/ run.pc = "idle" /\ scheduled_auto_validate_begin
    \/ \E out \in OverlapOutcomes : scheduled_auto_validate(out)
    \/ \E req \in Requests : enforce_request(req)
    \/ \E g \in GateGaps : GateWait(g)

SpecGate == Init /\ [][NextGate]_vars

(***************************************************************************)
(* The cron job on its schedule "0 */6 * * *", with manual validates in    *)
(* between                                                                 *)
(***************************************************************************)
\* the hours between two runs of the cron job
CronHours == 6

\* the clock of this specification stops this many hours after the start
MaxCronHours == 60

\* the clock moves in half periods of the schedule
CronStep == (CronHours * SecondsPerHour) \div 2

\* the clock stands on an instant of the schedule
OnSchedule ==
    (now - StartTime) % (CronHours * SecondsPerHour) = 0

\* the scheduler starts the job once at every instant of the schedule
cron_run ==
    /\ OnSchedule
    /\ last.op # "scheduled_auto_validate"
    /\ scheduled_auto_validate_begin

\* a user asks for a validate between two runs of the job
cron_manual_begin ==
    /\ ~OnSchedule
    /\ validate_license_begin("")

\* half a period passes, on the schedule only after the job has run
CronWait ==
    /\ run.pc = "idle"
    /\ jobs.holder = 0
    /\ OnSchedule => last.op = "scheduled_auto_validate"
    /\ now + CronStep <= StartTime + MaxCronHours * SecondsPerHour
    /\ now' = now + CronStep
    /\ last' = NoLast
    /\ UNCHANGED <<doc, run, client, jobs, pick, gate>>

NextCron ==
    \/ cron_run
    \/ \E out \in OverlapOutcomes : scheduled_auto_validate(out)
    \/ cron_manual_begin
    \/ \E out \in OverlapOutcomes : validate_license_call(out)
    \/ CronWait

SpecCron == Init /\ [][NextCron]_vars

(***************************************************************************)
(* Properties                                                              *)
(***************************************************************************)
\* the document the operation completed by this step had loaded
Loaded ==
    IF last'.op # "scheduled_auto_validate" THEN run.mem
    ELSE IF jobs.holder # 0 THEN jobs.mem[jobs.holder] ELSE doc

\* this step completes a validate (manual or scheduled) whose remote call succeeded
ValidateSucceeds ==
    /\ last'.op \in {"validate_license", "scheduled_auto_validate"}
    /\ last'.out.kind = "ok"

\* this step completes activate_license with the given kind of outcome
ActivateEnds(kinds) ==
    /\ last'.op = "activate_license"
    /\ last'.out.kind \in kinds

\* an error that indicates expiry: "expire" in the message in any letter
\* case, or the expiry code as embedded error code
IndicatesExpiry(e) ==
    \/ Contains(P_expire, Lower(e.msg))
    \/ (e.codes # <<>> /\ e.codes[1] = CODE_EXPIRED)

\* C1: in every License State persisted by any sequence or interleaving of
\* the operations (the cron job may save between two remote calls of a manual
\* operation), status ACTIVE or VALIDATED implies that grace_until is unset
C1_ActiveHasNoGrace ==
    doc.status \in {STATUS_ACTIVE, STATUS_VALIDATED} => doc.grace_until = NoTime

\* the cron job validated a record in soft grace while a manual operation,
\* which had loaded the record with its grace_until, was still in flight
C1_Witness ==
    /\ run.pc # "idle" /\ run.mem.grace_until # NoTime
    /\ last.op = "scheduled_auto_validate" /\ last.out.kind = "ok"
    /\ last.prev = STATUS_GRACE_SOFT
    /\ doc.status = STATUS_VALIDATED /\ doc.grace_until = NoTime

\* C2: in every persisted License State, a set grace_until implies status
\* GRACE_SOFT, LOCK_HARD or EXPIRED
C2_GraceImpliesDegraded ==
    doc.grace_until # NoTime =>
        doc.status \in {STATUS_GRACE_SOFT, STATUS_LOCK_HARD, STATUS_EXPIRED}

\* deactivate succeeded and its best-effort validate reported an active activation
C2_Witness ==
    /\ last.op = "deactivate_license" /\ last.res.kind = "return"
    /\ last.out.kind = "ok" /\ has_active_activation(last.out.body.data)
    /\ doc.grace_until = now /\ doc.status = STATUS_LOCK_HARD

\* C3: last_validated changes only in a step in which a remote activate or
\* validate call returned success
C3_LastValidatedOnlyOnSuccess ==
    [][doc'.last_validated # doc.last_validated => last'.out.kind = "ok"]_vars

\* C4: a successful activate_license persists ACTIVE, "Activated",
\* last_validated = now, no grace_until, the returned expiresAt, the token
\* selected from the response (else the loaded token), and returns the data
C4_ActivateSuccess ==
    [][ActivateEnds({"ok"}) =>
          LET body == last'.out.body
              sel == _extract_latest_token(body)
          IN  /\ doc'.status = STATUS_ACTIVE
              /\ doc'.reason = S_Activated
              /\ doc'.last_validated = now
              /\ doc'.grace_until = NoTime
              /\ body.data.expiresAt \notin {NoTime, BadTime} =>
                     doc'.expires_at = body.data.expiresAt
              /\ doc'.activation_token = IF sel # "" THEN sel ELSE Loaded.activation_token
              /\ last'.res = Return(body.data)]_vars

\* activate succeeded on a hard-locked record and brought expiry and token
C4_Witness ==
    /\ last.op = "activate_license" /\ last.out.kind = "ok"
    /\ last.prev = STATUS_LOCK_HARD
    /\ last.out.body.data.expiresAt = ExpMid
    /\ doc.status = STATUS_ACTIVE /\ doc.expires_at = ExpMid
    /\ doc.activation_token = Tok1 /\ doc.grace_until = NoTime

\* C5: an activate_license whose remote call fails with an error indicating
\* expiry persists EXPIRED, the message as reason, the expiry parsed from the
\* message, grace_until = now only if it was unset, and throws "expired"
C5_ActivateExpiryError ==
    [][(ActivateEnds({"RequestError", "ContractError"}) /\ IndicatesExpiry(last'.out.err)) =>
          LET e == last'.out.err
              dt == _parse_expiry_from_msg(e.msg)
          IN  /\ doc'.status = STATUS_EXPIRED
              /\ doc'.reason = IF e.msg # <<>> THEN e.msg ELSE S_LicenseExpired
              /\ dt # NoTime => doc'.expires_at = dt
              /\ doc'.grace_until =
                     IF Loaded.grace_until = NoTime THEN now ELSE Loaded.grace_until
              /\ last'.res = Throw(T_Expired)]_vars

\* an expiry error met a record whose grace_until was set on an earlier day
C5_Witness ==
    /\ last.op = "activate_license" /\ last.out.err.msg = M_ExpiredOn
    /\ last.res = Throw(T_Expired)
    /\ doc.status = STATUS_EXPIRED /\ doc.expires_at = 0
    /\ doc.grace_until # NoTime /\ doc.grace_until < now

\* C6: an activate_license whose remote call fails with an error that does
\* not indicate expiry leaves the persisted state as it is and throws the
\* generic failure
C6_ActivateOtherError ==
    [][(ActivateEnds({"RequestError", "ContractError"}) /\ ~IndicatesExpiry(last'.out.err)) =>
          /\ doc'.status = doc.status
          /\ doc'.grace_until = doc.grace_until
          /\ doc'.last_validated = doc.last_validated
          /\ doc'.expires_at = doc.expires_at
          /\ doc'.activation_token = doc.activation_token
          /\ last'.res = Throw(T_Failed)]_vars

\* the idempotency guard rejected an activate on a validated record
C6_Witness ==
    /\ last.op = "activate_license" /\ last.out.kind = "RequestError"
    /\ last.out.err.status = 409
    /\ last.res = Throw(T_Failed)
    /\ last.prev = STATUS_VALIDATED /\ doc.status = STATUS_VALIDATED

\* C7: validate_license with a resolvable key makes exactly one
\* client.validate call, whatever the stored status
C7_ValidateAlwaysCalls ==
    (last.op = "validate_license" /\ last.lk # "") => last.nval = 1

\* a validate_license on an EXPIRED record went to the server
C7_Witness ==
    /\ last.op = "validate_license" /\ last.lk # ""
    /\ last.prev = STATUS_EXPIRED /\ last.nval = 1

\* C8: from EXPIRED with expires_at in the past, a validate answered with a
\* future expiresAt and an active activation record persists VALIDATED,
\* "Validated", no grace_until, last_validated = now and the new expires_at
C8_ExpiryRecovery ==
    [][(/\ ValidateSucceeds
        /\ Loaded.status = STATUS_EXPIRED
        /\ Loaded.expires_at # NoTime /\ Loaded.expires_at < now
        /\ last'.out.body.data.expiresAt > now
        /\ \E i \in 1..Len(last'.out.body.data.activationData.recs) :
               last'.out.body.data.activationData.recs[i].deactivated_at = NoTime) =>
          /\ doc'.status = STATUS_VALIDATED
          /\ doc'.reason = S_Validated
          /\ doc'.grace_until = NoTime
          /\ doc'.last_validated = now
          /\ doc'.expires_at = last'.out.body.data.expiresAt]_vars

\* the scheduled job found the expiry of an EXPIRED record extended
C8_Witness ==
    /\ last.op = "scheduled_auto_validate" /\ last.out.kind = "ok"
    /\ last.prev = STATUS_EXPIRED
    /\ last.out.body.data.expiresAt > now
    /\ doc.status = STATUS_VALIDATED /\ doc.expires_at = last.out.body.data.expiresAt
    /\ doc.grace_until = NoTime

\* C9: a successful validate that leaves expires_at earlier than now
\* persists EXPIRED, grace_until = now only if it was unset, and
\* last_validated = now, whatever the previous status and the activation data
C9_ValidateForcesExpired ==
    [][(ValidateSucceeds /\ doc'.expires_at # NoTime /\ doc'.expires_at < now) =>
          /\ doc'.status = STATUS_EXPIRED
          /\ doc'.grace_until =
                 IF Loaded.grace_until = NoTime THEN now ELSE Loaded.grace_until
          /\ doc'.last_validated = now]_vars

\* a validate reporting an active activation found the expiry passed
C9_Witness ==
    /\ last.op = "validate_license" /\ last.out.kind = "ok"
    /\ has_active_activation(last.out.body.data)
    /\ last.prev = STATUS_VALIDATED
    /\ doc.status = STATUS_EXPIRED /\ doc.expires_at < now /\ doc.grace_until = now

\* C10 as stated: after any successful activate, reactivate or validate, an
\* expires_at earlier than now means the persisted status is EXPIRED
C10_ExpiryCheckShared ==
    [][(/\ last'.op \in {"activate_license", "reactivate_license", "validate_license"}
        /\ last'.out.kind = "ok" /\ last'.saved
        /\ doc'.expires_at # NoTime /\ doc'.expires_at < now) =>
          doc'.status = STATUS_EXPIRED]_vars

\* C10 amended: the expiry check is made on validate success only: after a
\* successful validate an expires_at earlier than now means status EXPIRED,
\* and no persisted VALIDATED state carries an expires_at that was in the
\* past when the status was written
C10_ExpiryCheckOnValidate ==
    /\ [][(ValidateSucceeds /\ doc'.expires_at # NoTime /\ doc'.expires_at < now) =>
             doc'.status = STATUS_EXPIRED]_vars
    /\ [](doc.status = STATUS_VALIDATED =>
             (doc.expires_at = NoTime \/ doc.expires_at >= doc.last_validated))

\* a validate moved an ACTIVE record with a past expiry to EXPIRED
C10_Witness ==
    /\ last.op \in {"validate_license", "scheduled_auto_validate"} /\ last.out.kind = "ok"
    /\ last.prev = STATUS_ACTIVE
    /\ doc.status = STATUS_EXPIRED /\ doc.expires_at < now

\* the response of a successful validate has an active activation, in the
\* words of the specification: a single record lacking deactivated_at, a
\* list with a record lacking deactivated_at, or timesActivated > 0
ResponseIsActive(data) ==
    \/ /\ data.activationData.kind = "dict"
       /\ data.activationData.recs[1].deactivated_at = NoTime
    \/ /\ data.activationData.kind = "list"
       /\ \E i \in 1..Len(data.activationData.recs) :
              data.activationData.recs[i].deactivated_at = NoTime
    \/ data.timesActivated > 0

\* C11: a successful validate whose expires_at is not in the past persists
\* VALIDATED with reason "Validated" iff the response has an active
\* activation, otherwise DEACTIVATED with "Validated (no active activation)";
\* in both cases last_validated = now and grace_until is unset
C11_ValidatedIffActive ==
    [][(ValidateSucceeds /\ ~(doc'.expires_at # NoTime /\ doc'.expires_at < now)) =>
          /\ (ResponseIsActive(last'.out.body.data) =>
                 doc'.status = STATUS_VALIDATED /\ doc'.reason = S_Validated)
          /\ (~ResponseIsActive(last'.out.body.data) =>
                 doc'.status = STATUS_DEACTIVATED /\ doc'.reason = S_ValidatedNoActive)
          /\ doc'.last_validated = now
          /\ doc'.grace_until = NoTime]_vars

\* a validate of a validated record found its only activation record
\* deactivated and the counter at zero
C11_Witness ==
    /\ last.op \in {"validate_license", "scheduled_auto_validate"} /\ last.out.kind = "ok"
    /\ last.prev = STATUS_VALIDATED
    /\ last.out.body.data.activationData.kind = "dict"
    /\ ~ResponseIsActive(last.out.body.data)
    /\ doc.status = STATUS_DEACTIVATED /\ doc.reason = S_ValidatedNoActive
    /\ doc.last_validated = now /\ doc.grace_until = NoTime

\* C12: a successful validate (non-expired branch) applied to a record whose
\* previous status was GRACE_SOFT or LOCK_HARD persists VALIDATED with reason
\* "Grace cleared after success" and no grace_until
C12_GraceClearedAfterSuccess ==
    [][(/\ ValidateSucceeds
        /\ ~(doc'.expires_at # NoTime /\ doc'.expires_at < now)
        /\ Loaded.status \in {STATUS_GRACE_SOFT, STATUS_LOCK_HARD}) =>
          /\ doc'.status = STATUS_VALIDATED
          /\ doc'.reason = S_GraceCleared
          /\ doc'.grace_until = NoTime]_vars

\* this step completes a validate (manual or scheduled) whose remote call
\* failed with a RequestError or a ContractError
ValidateFails ==
    /\ last'.op \in {"validate_license", "scheduled_auto_validate"}
    /\ last'.out.kind \in {"RequestError", "ContractError"}

\* C13: after a failed validate the status is GRACE_SOFT when last_validated
\* is unset, LOCK_HARD iff now - last_validated >= 48 h and GRACE_SOFT
\* otherwise; grace_until = now and the reason is "Grace policy engaged: "
\* followed by the error
C13_GracePolicy ==
    [][ValidateFails =>
          /\ doc'.status =
                 IF Loaded.last_validated = NoTime THEN STATUS_GRACE_SOFT
                 ELSE IF now - Loaded.last_validated >= 48 * 3600 THEN STATUS_LOCK_HARD
                 ELSE STATUS_GRACE_SOFT
          /\ doc'.grace_until = now
          /\ doc'.reason = S_GracePrefix \o last'.out.err.msg]_vars

\* a validate failed 47.5 h after the last success and the record is in soft grace
C13_Witness ==
    /\ last.op \in {"validate_license", "scheduled_auto_validate"}
    /\ last.out.kind \in {"RequestError", "ContractError"}
    /\ doc.last_validated # NoTime /\ now - doc.last_validated = 171000
    /\ doc.status = STATUS_GRACE_SOFT /\ doc.grace_until = now

\* C14: a validate whose remote call fails with RequestError or ContractError
\* leaves last_validated, expires_at and activation_token unchanged, and the
\* status it persists depends on now - last_validated alone: LOCK_HARD iff
\* 48 h or more have passed since the last success, GRACE_SOFT otherwise,
\* whatever the previous status was
C14_FailedValidateFrame ==
    [][ValidateFails =>
          /\ doc'.last_validated = Loaded.last_validated
          /\ doc'.expires_at = Loaded.expires_at
          /\ doc'.activation_token = Loaded.activation_token
          /\ doc'.license_key = Loaded.license_key
          /\ doc'.status \in {STATUS_GRACE_SOFT, STATUS_LOCK_HARD}
          /\ (doc'.status = STATUS_LOCK_HARD <=>
                 (Loaded.last_validated # NoTime /\ now - Loaded.last_validated >= 172800))]_vars

\* a validate failed on a hard-locked record whose last success is recent:
\* the record is back in soft grace with its dates and token untouched
C14_Witness ==
    /\ last.op = "validate_license" /\ last.out.kind \in {"RequestError", "ContractError"}
    /\ last.prev = STATUS_LOCK_HARD
    /\ doc.last_validated # NoTime /\ now - doc.last_validated < 172800
    /\ doc.expires_at # NoTime
    /\ doc.status = STATUS_GRACE_SOFT

\* this step is the one in which reactivate_license gets the answer of its
\* first preflight validate and settles the effective token
FirstPreflightStep ==
    /\ run.op = "reactivate_license" /\ run.pc = "preflight"
    /\ run' # run

\* the preflight of this step rotated a token into the in-memory document
PreflightRotated ==
    IF run'.pc = "idle" THEN FALSE
    ELSE run'.mem.activation_token # run.mem.activation_token

\* C15: the effective token is the token rotated in by the
\* preflight if there is one, otherwise the caller-supplied token; with
\* neither the operation fails with "token required" and activate is not called
C15_EffectiveToken ==
    [][FirstPreflightStep =>
          IF PreflightRotated
          THEN run'.pc = "activate" /\ run'.eff = run'.mem.activation_token
          ELSE IF run.token # ""
          THEN run'.pc = "activate" /\ run'.eff = run.token
          ELSE /\ run'.pc = "idle"
               /\ last'.res = Throw(T_TokenRequired)
               /\ last'.nact = 0]_vars

\* this step completes reactivate_license with its retried activate answered
\* successfully: the first activate had failed with an activation-limit
\* contract error and the second preflight had brought a different token
ReactivateRetrySucceeds ==
    /\ run.op = "reactivate_license" /\ run.pc = "activate2"
    /\ last'.op = "reactivate_license" /\ last'.out.kind = "ok"

\* C16: one invocation of reactivate_license makes at most two client
\* activate calls and at most two preflight validate calls, and when the
\* retry succeeds exactly two of each were made and the persisted status is
\* ACTIVE
C16_SingleRetry ==
    /\ [](/\ (run.op = "reactivate_license" => run.nact <= 2 /\ run.nval <= 2)
          /\ (last.op = "reactivate_license" => last.nact <= 2 /\ last.nval <= 2))
    /\ [][ReactivateRetrySucceeds =>
             /\ last'.nact = 2 /\ last'.nval = 2
             /\ last'.saved /\ doc'.status = STATUS_ACTIVE]_vars

\* a reactivate hit the activation limit, got another token from its second
\* preflight and succeeded with it
C16_Witness ==
    /\ last.op = "reactivate_license" /\ last.out.kind = "ok"
    /\ last.nact = 2 /\ last.nval = 2
    /\ last.sent # ""
    /\ doc.status = STATUS_ACTIVE

\* this step is the one in which reactivate_license, after an
\* activation-limit error, gets the answer of its second preflight validate
SecondPreflightStep ==
    /\ run.op = "reactivate_license" /\ run.pc = "preflight2"
    /\ run' # run

\* this step completes reactivate_license with its retried activate rejected
\* by the idempotency guard of the client
RetryHitsGuard ==
    /\ run.op = "reactivate_license" /\ run.pc = "activate2"
    /\ last'.op = "reactivate_license"
    /\ last'.out.kind = "RequestError" /\ last'.out.err.msg = M_Guard

\* C17: in the retry cycle the second activate is made only with a token
\* different from the first attempt's; without one the caller gets the
\* "activation limit reached and no fresh token" failure after a single
\* activate call; a retried activate rejected by the idempotency guard gives
\* the "still settling" failure
C17_RetryFailures ==
    [][/\ (SecondPreflightStep =>
             \/ /\ run'.pc = "activate2"
                /\ run'.mem.activation_token # ""
                /\ run'.mem.activation_token # run.eff
                /\ run'.nact = 1
             \/ /\ run'.pc = "idle"
                /\ _preflight_refresh_token(run.mem, last'.out).activation_token \in {"", run.eff}
                /\ last'.res = Throw(T_LimitNoToken)
                /\ last'.nact = 1 /\ ~last'.saved)
       /\ (RetryHitsGuard =>
             /\ last'.res = Throw(T_Settling)
             /\ last'.sent # run.eff
             /\ last'.nact = 2)]_vars

\* the retried activate of a reactivate was stopped by the idempotency guard
C17_Witness ==
    /\ last.op = "reactivate_license" /\ last.nact = 2 /\ last.nval = 2
    /\ last.out.kind = "RequestError" /\ last.out.err.msg = M_Guard
    /\ last.res = Throw(T_Settling)

\* the message names an activation-limit condition in any letter case
NamesActivationLimit(msg) ==
    \/ Contains(Lower(P_ActivationLimit), Lower(msg))
    \/ Contains(Lower(P_maximum_activation), Lower(msg))

\* C18: reactivate_license enters the retry cycle for every contract error
\* whose message contains "activation limit" or "maximum activation" in any
\* letter case: no first attempt that failed with such an error ends the
\* operation
C18_RetryAnyCase ==
    [][(/\ run.op = "reactivate_license" /\ run.pc = "activate"
        /\ last'.op = "reactivate_license"
        /\ last'.out.kind = "ContractError") =>
          ~NamesActivationLimit(last'.out.err.msg)]_vars

\* what activate_license persists for a record d and an outcome of
\* client.activate (d itself stands for "nothing saved")
ActivateLicenseDoc(d, out, t) ==
    IF out.kind = "ok" THEN ActivateSuccess(d, out.body, t)
    ELSE IF out.kind \in {"RequestError", "ContractError"} /\ ActivateSeesExpiry(out.err)
    THEN ActivateMarkExpired(d, out.err, t)
    ELSE d

\* what activate_license hands to its caller for an outcome of client.activate
ActivateLicenseResult(out) ==
    IF out.kind = "ok" THEN Return(_extract_data(out.body))
    ELSE IF out.kind \in {"RequestError", "ContractError"}
    THEN IF ActivateSeesExpiry(out.err) THEN Throw(T_Expired) ELSE Throw(T_Failed)
    ELSE Throw(T_Unexpected)

\* C19: reactivate_license applies the outcome of its activate call as
\* activate_license does: for the same record and the same outcome it leaves
\* the same status, expires_at, grace_until and last_validated and gives the
\* caller the same result
C19_SameAsActivate ==
    [][(/\ run.op = "reactivate_license" /\ run.pc = "activate"
        /\ last'.op = "reactivate_license") =>
          LET d == ActivateLicenseDoc(run.mem, last'.out, now)
          IN  /\ doc'.status = d.status
              /\ doc'.expires_at = d.expires_at
              /\ doc'.grace_until = d.grace_until
              /\ doc'.last_validated = d.last_validated
              /\ last'.res = ActivateLicenseResult(last'.out)]_vars

\* this step completes deactivate_license after client.deactivate was called
DeactivateEnds ==
    /\ run.op = "deactivate_license" /\ run.pc \in {"deactivate", "postvalidate"}
    /\ last'.op = "deactivate_license"

\* C20: once deactivate_license has called the client, the persisted record
\* has status LOCK_HARD and grace_until = now whatever the client and the
\* validate that follows answer; the reason is "License deactivated" and the
\* token is empty after a successful remote deactivate, and the reason names
\* the failure after a failed one
C20_DeactivateHardLocks ==
    [][DeactivateEnds =>
          /\ last'.saved /\ last'.ndeact = 1
          /\ doc'.status = STATUS_LOCK_HARD
          /\ doc'.grace_until = now
          /\ (run.pc = "postvalidate" =>
                 /\ doc'.reason = S_LicenseDeactivated
                 /\ doc'.activation_token = ""
                 /\ last'.res.kind = "return")
          /\ (run.pc = "deactivate" =>
                 /\ last'.out.kind # "ok"
                 /\ doc'.reason =
                        (IF last'.out.kind \in {"RequestError", "ContractError"}
                         THEN S_DeactFailedPrefix ELSE S_DeactUnexpectedPrefix)
                        \o last'.out.err.msg
                 /\ last'.res.kind = "throw")]_vars

\* a deactivate with a token succeeded and the validate that followed it
\* reported the license expired: the record is hard-locked all the same
C20_Witness ==
    /\ last.op = "deactivate_license" /\ last.res.kind = "return"
    /\ last.sent # ""
    /\ last.out.kind = "ok" /\ last.out.body.data.expiresAt = ExpEarly
    /\ doc.expires_at = ExpEarly /\ doc.expires_at < now
    /\ doc.status = STATUS_LOCK_HARD /\ doc.grace_until = now
    /\ doc.activation_token = ""

\* the persisted record carries the hard lock that deactivate_license set
LockedByDeactivate ==
    /\ doc.status = STATUS_LOCK_HARD
    /\ \/ doc.reason = S_LicenseDeactivated
       \/ Contains(S_DeactFailedPrefix, doc.reason)
       \/ Contains(S_DeactUnexpectedPrefix, doc.reason)

\* C21: once deactivate_license has set LOCK_HARD, no validate moves the
\* status out of LOCK_HARD: not the validate inside deactivate_license, and
\* no later validate_license or scheduled_auto_validate, succeeding or failing
C21_DeactivateSticky ==
    [][/\ (DeactivateEnds /\ run.pc = "postvalidate") => doc'.status = STATUS_LOCK_HARD
       /\ (/\ LockedByDeactivate
           /\ last'.op \in {"validate_license", "scheduled_auto_validate"})
              => doc'.status = STATUS_LOCK_HARD]_vars

\* C22: deactivate_license called with a token runs no preflight and sends
\* exactly that token; called without one it runs one preflight validate and
\* sends the token the record holds after it, or no token at all (bulk mode)
\* when the record holds none
C22_DeactivateToken ==
    /\ [](run.op = "deactivate_license" =>
            /\ (run.pc = "preflight" => run.token = "" /\ run.nval = 0 /\ run.ndeact = 0)
            /\ (run.pc = "deactivate" /\ run.token # "" =>
                    run.eff = run.token /\ run.nval = 0)
            /\ (run.pc = "deactivate" /\ run.token = "" =>
                    run.eff = run.mem.activation_token /\ run.nval = 1))
    /\ [][DeactivateEnds =>
            /\ last'.sent = run.eff
            /\ last'.ndeact = 1
            /\ last'.nval = (IF run.token = "" THEN 1 ELSE 0)
                            + (IF run.pc = "postvalidate" THEN 1 ELSE 0)]_vars

\* bulk mode: called without a token on a record that holds none after the
\* preflight, the deactivate went out without a token
C22_Witness ==
    /\ last.op = "deactivate_license" /\ last.token = ""
    /\ last.ndeact = 1 /\ last.nval = 2
    /\ last.sent = ""
    /\ last.res.kind = "return"

\* C23: activate_license, reactivate_license, deactivate_license and
\* validate_license, called without a license key while none is stored, fail
\* with "License Key is required ..." before any client call (preflight
\* included) and leave the persisted record as it was
C23_KeyRequired ==
    /\ [](run.pc # "idle" => run.lk # "")
    /\ [][(/\ run.pc = "idle" /\ doc.license_key = ""
           /\ last'.op \in {"activate_license", "reactivate_license",
                            "deactivate_license", "validate_license"})
          => /\ last'.lk = ""
             /\ last'.res = Throw(T_KeyRequired)
             /\ last'.nval = 0 /\ last'.nact = 0 /\ last'.ndeact = 0
             /\ ~last'.saved
             /\ doc' = doc]_vars

\* a record activated with the key as parameter; a deactivate without a key
\* is then turned down
C23_Witness ==
    /\ doc.license_key = "" /\ doc.status = STATUS_ACTIVE
    /\ last.op = "deactivate_license" /\ last.lk = ""
    /\ last.res = Throw(T_KeyRequired)
    /\ last.nval = 0 /\ last.ndeact = 0

\* C24: whatever the client answers on a first attempt or on a retry, each
\* of activate_license, reactivate_license, deactivate_license and
\* validate_license ends by returning the response data or by raising the
\* user-facing failure; no exception of the client leaves the operation
C24_NoEscape ==
    last.op \in {"activate_license", "reactivate_license",
                 "deactivate_license", "validate_license"}
        => last.res.kind \in {"return", "throw"}

\* this step is the lock attempt of a client.activate call of caller c
LockAttempt(c) ==
    /\ client.call[c].pc = "idle"
    /\ client'.call[c] # client.call[c]

\* C25: with the lock store available, of two client.activate calls with the
\* same license key and token made less than the lock window apart, the one
\* that acquires the lock issues the network request and the other fails
\* with RequestError 409 without a network request; a call that finds no
\* lock acquires it
C25_IdempotencyGuard ==
    /\ [](\A c1, c2 \in Callers :
            LET a == client.call[c1]
                b == client.call[c2]
            IN  /\ (a.sent \/ a.pc = "request") => a.acquired
                /\ (/\ c1 # c2 /\ a.at # NoTime /\ b.at # NoTime
                    /\ a.up /\ b.up /\ a.tok = b.tok
                    /\ a.at <= b.at /\ b.at < a.at + Window
                    /\ a.acquired)
                   => /\ ~b.acquired /\ b.status = 409
                      /\ ~b.sent /\ b.pc = "idle")
    /\ [][\A c \in Callers : (LockAttempt(c) /\ client.up) =>
            LET b == client'.call[c]
            IN  /\ b.acquired = (client.lock[TokFrag(b.tok)] = 0)
                /\ b.acquired => (b.pc = "request" /\ b.status = NoStatus)
                /\ ~b.acquired => (b.pc = "idle" /\ b.status = 409 /\ ~b.sent)]_vars

\* caller 1 acquired the lock and sent its request; caller 2 called with the
\* same token seven seconds later and was turned down with 409
C25_Witness ==
    /\ client.call[1].up /\ client.call[1].acquired /\ client.call[1].sent
    /\ client.call[2].up /\ client.call[2].tok = client.call[1].tok
    /\ client.call[2].at = client.call[1].at + Window - 1
    /\ client.call[2].status = 409 /\ ~client.call[2].sent

\* C26: while the lock store is unavailable the lock attempt counts as
\* acquired: no client.activate call is rejected with 409 and every call
\* goes on to its network request
C26_LockFailsOpen ==
    /\ [](\A c \in Callers : client.call[c].status = 409 => client.call[c].up)
    /\ [][\A c \in Callers : (LockAttempt(c) /\ ~client.up) =>
            /\ client'.call[c].acquired
            /\ client'.call[c].pc = "request"
            /\ client'.call[c].status = NoStatus
            /\ client'.lock = client.lock]_vars

\* during an outage both callers called at the same instant with the same
\* token and both sent their requests
C26_Witness ==
    /\ ~client.call[1].up /\ ~client.call[2].up
    /\ client.call[1].at = client.call[2].at
    /\ client.call[1].tok = TokUser /\ client.call[2].tok = TokUser
    /\ client.call[1].sent /\ client.call[2].sent

\* C27: the request loop retries only transport failures (Timeout,
\* ConnectionError).  A pass that receives an HTTP response, whatever its
\* status, or meets any other exception ends the loop at once with that
\* outcome; under persistent transport failure there are retry_count + 1
\* passes with retry_count sleeps of retry_backoff_seconds * 2^attempt
\* between them and then RequestError("Network error: ..."); every pass
\* ends the loop or raises attempt, which never exceeds retry_count
C27_RetryOnlyTransport ==
    /\ [](LET g == client.get
          IN  /\ g.attempt <= retry_count
              /\ g.tries <= retry_count + 1
              /\ Len(g.slept) = g.attempt
              /\ \A i \in 1..Len(g.slept) : g.slept[i] = retry_backoff_seconds * (2 ^ (i - 1))
              /\ g.pc = "request" => g.tries = g.attempt
              /\ g.pc = "done" => g.tries = g.attempt + 1
              /\ (g.pc = "done" /\ g.res.kind = "RequestError" /\ g.res.status = NoStatus) =>
                     /\ g.tries = retry_count + 1
                     /\ g.last_exc \in {"Timeout", "ConnectionError"}
                     /\ SubSeq(g.res.msg, 1, 15) =
                            <<"N", "e", "t", "w", "o", "r", "k", " ",
                              "e", "r", "r", "o", "r", ":", " ">>)
    /\ [][(client.get.pc = "request" /\ client'.get # client.get) =>
            \/ /\ client'.get.pc = "done"
               /\ client'.get.attempt = client.get.attempt
               /\ client'.get.slept = client.get.slept
            \/ /\ client'.get.pc = "request"
               /\ client'.get.last_exc \in {"Timeout", "ConnectionError"}
               /\ client.get.attempt < retry_count
               /\ client'.get.attempt = client.get.attempt + 1]_vars

\* four passes met a transport failure: three sleeps of 2, 4 and 8 seconds,
\* then the network error
C27_Witness ==
    /\ client.get.pc = "done" /\ client.get.tries = 4
    /\ client.get.slept = <<2, 4, 8>>
    /\ client.get.res.kind = "RequestError" /\ client.get.res.status = NoStatus

\* the classification of the response that ended the request loop; a call
\* that succeeds yields the whole body, or (unwrapped) data when the body
\* has a data key
Classified(unwrapped) ==
    LET g == client.get
        r == g.resp
        b == r.body
        embedded == /\ b.has_data /\ b.data.object
                    /\ (b.data.has_errors \/ b.data.has_error_data)
    IN  (g.pc = "done" /\ r.status # NoStatus) =>
           IF r.status >= 400
           THEN /\ g.res.kind = "RequestError" /\ g.res.status = r.status
                /\ (r.ctype_json /\ r.parses /\ b.message # <<>>) =>
                       (g.res.msg = b.message /\ g.res.payload = b)
           ELSE IF ~r.parses
           THEN g.res.kind = "ContractError"
           ELSE IF embedded
           THEN /\ g.res.kind = "ContractError" /\ g.res.payload = b
                /\ (b.data.errors # <<>> /\ b.data.errors[1].msgs # <<>>) =>
                       g.res.msg = b.data.errors[1].msgs[1]
                /\ \A i \in 1..Len(b.data.error_data) :
                       (b.data.errors # <<>> /\ b.data.error_data[i].code = b.data.errors[1].code)
                           => g.res.status = b.data.error_data[i].status
           ELSE /\ g.res.kind = "ok"
                /\ g.res.value = IF unwrapped /\ b.has_data THEN b.data ELSE b

\* C28: HTTP status >= 400 gives RequestError(message, status, payload) even
\* when the body embeds errors; else a body that is not JSON gives
\* ContractError; else a JSON body whose data is an object with errors
\* and/or error_data gives ContractError with the first message of the first
\* error code and its status; else the call succeeds and yields data, or the
\* whole body when there is no data key
C28_Classification ==
    Classified(TRUE)

\* C28 as the client has it: the same precedence, and a call that succeeds
\* returns the whole JSON body, wrapper included
C28_ClassificationWholeBody ==
    Classified(FALSE)

\* a 404 whose JSON body embeds errors under data ended the loop as the
\* RequestError of the HTTP layer, with the top-level message of the body
C28_Witness ==
    /\ client.get.pc = "done" /\ client.get.resp.status = 404
    /\ client.get.resp.body.data.has_errors
    /\ client.get.res.kind = "RequestError" /\ client.get.res.status = 404
    /\ client.get.res.msg = M_Invalid

\* C29: of the runs of scheduled_auto_validate started in the worker
\* processes at most one at a time is between loading the record and the end
\* of its validate; a run whose wait for the global lock times out makes no
\* validate call, leaves the record alone and returns, without queuing or
\* trying again
C29_SchedulerExclusion ==
    /\ [](/\ Cardinality({w \in Workers : jobs.pc[w] = "validate"}) <= 1
          /\ \A w \in Workers : jobs.pc[w] = "validate" => jobs.holder = w)
    /\ [][\A w \in Workers :
            /\ (jobs.pc[w] # "validate" /\ jobs'.pc[w] = "validate") =>
                   (jobs.holder = 0 /\ jobs'.mem[w] = doc)
            /\ (jobs.pc[w] = "waiting" /\ jobs.holder # 0 /\ jobs'.pc[w] # "waiting") =>
                   /\ jobs'.pc[w] = "idle"
                   /\ jobs'.holder = jobs.holder
                   /\ doc' = doc
                   /\ last'.op = "scheduled_auto_validate"
                   /\ last'.nval = 0 /\ ~last'.saved
                   /\ last'.res = Return(NoData)]_vars

\* worker 1 is in its validate under the lock, workers 2 and 3 were waiting
\* and the run of one of them has just ended on the lock timeout
C29_Witness ==
    /\ jobs.holder = 1 /\ jobs.pc[1] = "validate"
    /\ jobs.pc[2] = "idle" /\ jobs.pc[3] = "waiting"
    /\ last.op = "scheduled_auto_validate" /\ last.nval = 0
    /\ doc.license_key # "" /\ doc.status = STATUS_VALIDATED

\* C30: scheduled_auto_validate always returns normally: after a lock
\* timeout, without a license key, after a validate that failed and after an
\* unexpected exception; without a configured license key it makes no remote
\* call and leaves the record alone; with a key and the lock it calls
\* validate_license once, with that key
C30_SchedulerNeverRaises ==
    /\ [](\A w \in Workers : jobs.pc[w] = "validate" => jobs.mem[w].license_key # "")
    /\ [][/\ last'.op = "scheduled_auto_validate" => last'.res = Return(NoData)
          /\ \A w \in Workers :
               /\ (jobs.pc[w] = "waiting" /\ jobs.holder = 0 /\ doc.license_key = ""
                   /\ jobs'.pc[w] # "waiting") =>
                      /\ jobs'.pc[w] = "idle" /\ jobs'.holder = 0
                      /\ doc' = doc
                      /\ last'.op = "scheduled_auto_validate"
                      /\ last'.nval = 0 /\ ~last'.saved
               /\ (jobs.pc[w] = "validate" /\ jobs'.pc[w] # "validate") =>
                      /\ jobs'.pc[w] = "idle"
                      /\ last'.op = "scheduled_auto_validate"
                      /\ last'.nval = 1
                      /\ last'.lk = jobs.mem[w].license_key
                      /\ doc' = ValidateDoc(jobs.mem[w], last'.out, now)]_vars

\* the validate of a run met an unexpected exception: the record carries the
\* grace decision and the run returned normally
C30_Witness ==
    /\ last.op = "scheduled_auto_validate" /\ last.nval = 1
    /\ last.out.kind = "Exception"
    /\ last.res = Return(NoData)
    /\ last.saved /\ doc.grace_until = now

\* the activationData list the selector finds in the response it was called on
PickedList ==
    pick.payload.data.activationData.recs

\* the selector was called on a wrapped response whose activationData is a list
PickedFromList ==
    /\ pick.pc = "done"
    /\ pick.payload.wrapped
    /\ pick.payload.data.activationData.kind = "list"

\* C31: when the list holds a record with a token and deactivated_at unset,
\* the returned token is the token of such a record, whatever the
\* timestamps of the deactivated records
C31_ActiveFirst ==
    (/\ PickedFromList
     /\ \E i \in 1..Len(PickedList) :
            PickedList[i].token # "" /\ PickedList[i].deactivated_at = NoTime)
    => \E i \in 1..Len(PickedList) :
           /\ PickedList[i].token # ""
           /\ PickedList[i].deactivated_at = NoTime
           /\ pick.token = PickedList[i].token

\* a deactivated record updated later and listed first loses to the active one
C31_Witness ==
    /\ PickedFromList
    /\ Len(PickedList) = 2
    /\ PickedList[1] = Rec(Tok1, 30, 20, 30)
    /\ PickedList[2] = Rec(Tok2, NoTime, 10, NoTime)
    /\ pick.token = Tok2

\* the recency the selector gives a record: updated_at, created_at when
\* updated_at is missing or unparsable, 0 when both are
Recency(x) ==
    IF x.updated_at \notin {NoTime, BadTime} THEN x.updated_at
    ELSE IF x.created_at \notin {NoTime, BadTime} THEN x.created_at
    ELSE 0

\* record a does not rank above record b by (is_active, recency)
NotAbove(a, b) ==
    LET aa == IF a.deactivated_at = NoTime THEN 1 ELSE 0
        ab == IF b.deactivated_at = NoTime THEN 1 ELSE 0
    IN  aa < ab \/ (aa = ab /\ Recency(a) <= Recency(b))

\* the records of the list that hold a token
Holders ==
    {i \in 1..Len(PickedList) : PickedList[i].token # ""}

\* C32: of a list, the selector returns the token of the first record in
\* list order whose (is_active, recency) no other token-holding record
\* exceeds; among records of equal activity that is the one with the
\* greatest recency; an empty list or one without tokens gives null
C32_RecencyAndTies ==
    PickedFromList =>
        IF Holders = {} THEN pick.token = ""
        ELSE \E i \in Holders :
                 /\ pick.token = PickedList[i].token
                 /\ \A j \in Holders : NotAbove(PickedList[j], PickedList[i])
                 /\ \A j \in Holders : j < i => ~NotAbove(PickedList[i], PickedList[j])
                 /\ (\A j \in Holders :
                        PickedList[j].deactivated_at = PickedList[i].deactivated_at)
                    => \A j \in Holders : Recency(PickedList[j]) <= Recency(PickedList[i])

\* three active records: the second has the greatest recency through its
\* created_at, the third ties with it and comes later in the list
C32_Witness ==
    /\ PickedFromList
    /\ Len(PickedList) = 3
    /\ PickedList[1] = Rec(Tok1, NoTime, 20, 30)
    /\ PickedList[2] = Rec(Tok2, NoTime, BadTime, 30)
    /\ PickedList[3] = Rec(Tok1, NoTime, NoTime, 30)
    /\ pick.token = Tok2

\* C33: an operation that loads status EXPIRED with grace_until set and
\* saves status EXPIRED again (activate or reactivate met an expiry error,
\* a validate succeeded with expires_at in the past) leaves grace_until at
\* the time of the first detection
C33_FirstDetectionKept ==
    [][(/\ last'.op \in {"activate_license", "reactivate_license", "validate_license",
                         "scheduled_auto_validate"}
        /\ last'.saved
        /\ Loaded.status = STATUS_EXPIRED
        /\ Loaded.grace_until # NoTime
        /\ doc'.status = STATUS_EXPIRED)
       => doc'.grace_until = Loaded.grace_until]_vars

\* C35: a request that is neither on the allowlist nor aimed at License
\* Settings, arriving while the record is EXPIRED and less than the 24 hours
\* of tolerance after the instant grace_until holds, is let through
C35_ExpiredTolerance ==
    [][(/\ gate'.verdict # "none"
        /\ gate'.method # "OPTIONS" /\ gate'.path = "other"
        /\ doc.status = STATUS_EXPIRED
        /\ doc.grace_until # NoTime
        /\ now - doc.grace_until < ToleranceHours * SecondsPerHour)
       => gate'.verdict = "allow"]_vars

\* this step is one in which reactivate_license or deactivate_license gets
\* the answer of a preflight validate
PreflightStep ==
    /\ run.op \in {"reactivate_license", "deactivate_license"}
    /\ run.pc \in {"preflight", "preflight2"}
    /\ run' # run

\* the in-memory document the operation holds after this step
MemAfter ==
    IF run'.pc = "idle" THEN run.mem ELSE run'.mem

\* C34: a preflight validate leaves status, grace_until, last_validated and
\* expires_at of the in-memory document alone and saves nothing; it changes
\* the token only together with the reason "Token rotated from validate";
\* its failure never ends the operation: the operation goes on to its next
\* call or stops for want of a token
C34_PreflightFrame ==
    [][PreflightStep =>
          /\ doc' = doc
          /\ run'.pc # "idle" =>
                 /\ run'.nval = run.nval + 1
                 /\ run'.mem = [run.mem EXCEPT !.activation_token = run'.mem.activation_token,
                                               !.reason = run'.mem.reason]
                 /\ \/ run'.mem = run.mem
                    \/ /\ run'.mem.activation_token \notin {"", run.mem.activation_token}
                       /\ run'.mem.reason = S_TokenRotated
                 /\ run'.pc \in {"activate", "activate2", "deactivate"}
          /\ run'.pc = "idle" =>
                 /\ last'.nval = run.nval + 1
                 /\ ~last'.saved
                 /\ last'.res \in {Throw(T_TokenRequired), Throw(T_LimitNoToken)}]_vars

\* deactivate_license without a token on a hard-locked record: the preflight
\* brought a token, the rest of the record in memory is as loaded
C34_Witness ==
    /\ run.op = "deactivate_license" /\ run.pc = "deactivate" /\ run.nval = 1
    /\ doc.status = STATUS_LOCK_HARD /\ doc.activation_token = ""
    /\ run.mem = [doc EXCEPT !.activation_token = Tok2, !.reason = S_TokenRotated]

\* the instants of the schedule later than last_validated and up to now: the
\* job ran once at each of them, and each of these runs failed, since a run
\* whose validate succeeds moves last_validated
FailedRuns ==
    ((now - StartTime) \div (CronHours * SecondsPerHour))
    - ((doc.last_validated - StartTime) \div (CronHours * SecondsPerHour))

\* this step is a run of the cron job whose validate failed
CronRunFails ==
    /\ last'.op = "scheduled_auto_validate"
    /\ last'.nval = 1
    /\ last'.out.kind # "ok"

\* C36: with the job on its six-hour schedule, each of the first seven
\* consecutive failed runs after a successful validation saves GRACE_SOFT,
\* and a failed run saves LOCK_HARD no earlier than the eighth
C36_EightAttempts ==
    [][(CronRunFails /\ doc.last_validated # NoTime) =>
          /\ FailedRuns >= 1
          /\ FailedRuns <= 7 => doc'.status = STATUS_GRACE_SOFT
          /\ doc'.status = STATUS_LOCK_HARD => FailedRuns >= 8]_vars

\* the eighth failed run in a row, 48 hours after a successful run, locks
C36_Witness ==
    /\ last.op = "scheduled_auto_validate" /\ last.out.kind = "RequestError"
    /\ last.prev = STATUS_GRACE_SOFT
    /\ doc.last_validated = StartTime
    /\ FailedRuns = 8
    /\ doc.status = STATUS_LOCK_HARD

\* C37: a client.activate call is turned down by the guard only within the
\* lock window after the call that acquired the lock, which is the instant
\* stored under the key, however many duplicates were turned down since
C37_LockShortLived ==
    [][\A c \in Callers :
          (/\ LockAttempt(c) /\ client.up
           /\ client'.call[c].status = 409)
          => client.t < client.value[TokFrag(client'.call[c].tok)] + Window]_vars

\* what the single-call operation op persists for a record d and the outcome
\* of its remote call
SerialDoc(op, d, out) ==
    IF op = "validate_license" THEN ValidateDoc(d, out, now)
    ELSE ActivateLicenseDoc(d, out, now)

\* this step completes a manual validate or activate with a save, right
\* after a run of the cron job that loaded the same record as the manual
\* operation and saved while the manual operation was waiting for its answer
OverlappedByJob ==
    /\ run.op \in {"validate_license", "activate_license"}
    /\ last.op = "scheduled_auto_validate" /\ last.saved
    /\ doc = ValidateDoc(run.mem, last.out, now)
    /\ last'.op = run.op /\ last'.saved

\* this step completes a run of the cron job with a save, right after a
\* manual validate or activate that loaded the same record as the job and
\* saved while the job was waiting for its answer
OverlapsManual ==
    /\ jobs.holder = CronWorker
    /\ run.pc = "idle"
    /\ last.op \in {"validate_license", "activate_license"} /\ last.saved
    /\ doc = SerialDoc(last.op, jobs.mem[CronWorker], last.out)
    /\ last'.op = "scheduled_auto_validate" /\ last'.saved

\* C38 as stated, for a manual validate or activate and one run of the cron
\* job that overlap: the record persisted in the end is the one that running
\* the two operations one after the other, in one order or the other, leaves
C38_Serializable ==
    [][/\ OverlappedByJob =>
             \/ doc' = SerialDoc(run.op, doc, last'.out)
             \/ doc' = ValidateDoc(SerialDoc(run.op, run.mem, last'.out), last.out, now)
       /\ OverlapsManual =>
             \/ doc' = ValidateDoc(doc, last'.out, now)
             \/ doc' = SerialDoc(last.op, ValidateDoc(jobs.mem[CronWorker], last'.out, now),
                                 last.out)]_vars

\* what the manual operation in flight saves when this step completes it,
\* computed from the record it holds in memory and the answer it received
SavedFromMemory ==
    LET out == last'.out
    IN  IF run.op = "validate_license" THEN ValidateDoc(run.mem, out, now)
        ELSE IF run.op = "activate_license" THEN ActivateLicenseDoc(run.mem, out, now)
        ELSE IF run.op = "reactivate_license"
        THEN IF out.kind = "ok" THEN ActivateSuccess(run.mem, out.body, now)
             ELSE _mark_expired(run.mem, out.err.msg, now)
        ELSE IF run.pc = "postvalidate"
        THEN HardLock(IF out.kind = "ok"
                      THEN _apply_validation_update(run.mem, _extract_data(out.body), now)
                      ELSE run.mem,
                      S_LicenseDeactivated, now)
        ELSE HardLock(run.mem,
                      (IF out.kind \in {"RequestError", "ContractError"}
                       THEN S_DeactFailedPrefix ELSE S_DeactUnexpectedPrefix) \o out.err.msg,
                      now)

\* C38, amended: the last writer wins.  A manual operation that saves
\* persists the record it loaded at its start with its own changes, whatever
\* the cron job saved in the meantime, and the cron job persists the record
\* it loaded before its validate call, whatever a manual operation saved in
\* the meantime; the update saved in between is lost
C38_LastWriterWins ==
    [][/\ (run.pc # "idle" /\ last'.op = run.op /\ last'.saved)
             => doc' = SavedFromMemory
       /\ (jobs.holder = CronWorker /\ last'.op = "scheduled_auto_validate" /\ last'.saved)
             => doc' = ValidateDoc(jobs.mem[CronWorker], last'.out, now)]_vars

\* the cron job is waiting for the answer of its validate with the record it
\* loaded, which holds a token and is not locked, while deactivate_license
\* has run whole and saved LOCK_HARD with the token cleared
C38_Witness ==
    /\ jobs.holder = CronWorker
    /\ jobs.mem[CronWorker].status # STATUS_LOCK_HARD
    /\ jobs.mem[CronWorker].activation_token # ""
    /\ run.pc = "idle"
    /\ last.op = "deactivate_license" /\ last.saved /\ last.out.kind = "ok"
    /\ doc.status = STATUS_LOCK_HARD /\ doc.activation_token = ""

\* C39: a grace_until the controller persists is the time of the operation
\* that wrote it, so a grace_until that is set is never later than the
\* current time
C39_GraceNotInFuture ==
    /\ [](doc.grace_until # NoTime => doc.grace_until <= now)
    /\ [][(doc'.grace_until # doc.grace_until /\ doc'.grace_until # NoTime)
          => doc'.grace_until = now]_vars

\* a day after a first failed validate the cron job failed again and moved
\* grace_until to the time of its run
C39_Witness ==
    /\ last.op = "scheduled_auto_validate" /\ last.out.kind = "RequestError"
    /\ last.prev = STATUS_GRACE_SOFT
    /\ now > StartTime
    /\ doc.status = STATUS_GRACE_SOFT /\ doc.grace_until = now

\* C40: the global lock is held only by a worker inside the with block of
\* the job; a run that waits with the lock free and no other run under way
\* enters the block unless a run that starts later gets in first; with a
\* license key set, whenever a run waits some run enters the block, and a
\* run inside the block completes its validate
C40_JobNotSkippedForever ==
    /\ [](jobs.holder # 0 => jobs.pc[jobs.holder] = "validate")
    /\ \A w \in Workers :
           (/\ jobs.pc[w] = "waiting" /\ jobs.holder = 0 /\ doc.license_key # ""
            /\ \A v \in Workers \ {w} : jobs.pc[v] = "idle")
           ~> (jobs.pc[w] = "validate" \/ \E v \in Workers \ {w} : jobs.pc[v] # "idle")
    /\ (doc.license_key # "" /\ \E w \in Workers : jobs.pc[w] = "waiting")
           ~> (\E w \in Workers : jobs.pc[w] = "validate")
    /\ \A w \in Workers :
           (jobs.pc[w] = "validate")
           ~> (jobs.pc[w] = "idle" /\ jobs.holder # w)

\* an earlier run failed and saved soft grace; with every other worker idle
\* the next run holds the lock and is about to validate
C40_Witness ==
    /\ doc.status = STATUS_GRACE_SOFT /\ doc.grace_until = now
    /\ jobs.holder = 2 /\ jobs.pc[2] = "validate"
    /\ jobs.pc[1] = "idle" /\ jobs.pc[3] = "idle"

====
